---- MODULE Spec2Model ----
(***************************************************************************)
(* Model of @tsip/flow-react: useFlow, useIsSsr and useAsyncFlow, the      *)
(* module-level previousStates side table, and the client side of the      *)
(* hydration registry.  One process is modelled at a time: a server        *)
(* process (renderToPipeableStream: render only, effects never run) or a   *)
(* browser process (hydrating or client mounts, commits, effects).         *)
(*                                                                         *)
(* Object identity is modelled by numbers: a snapshot carries the `ref`    *)
(* of the object the flow emitted, a memoized value carries an id that is  *)
(* fresh whenever useMemo recomputes.                                      *)
(***************************************************************************)
EXTENDS Integers, FiniteSets, Sequences, TLC

\* ---------------------------------------------------------------- bounds
MaxEmit == 2

\* ------------------------------------------------------------- universe
Flows == {1, 2}
Consumers == {1, 2}

\* the configuration of the main specification: one component with one
\* useAsyncFlow call, given flow 1 or skipToken
MainFlows == {1}
MainConsumers == {1}
skipToken == 0
Undefined == 0
Envs == {"server", "browser"}

\* AsyncFlowState<T>: pending {data?} | success {data} | error {error, data?}
\* A snapshot is an object with identity `ref`.  Every snapshot object
\* carries its own payload: its data and its error value are distinct from
\* those of every other snapshot object, so they are named by the ref too.
Shapes ==
    [status : {"pending", "error"}, hasData : BOOLEAN]
        \cup [status : {"success"}, hasData : {TRUE}]

Snap(r, shape) ==
    [ref |-> r, status |-> shape.status,
     data |-> IF shape.hasData THEN r ELSE Undefined,
     error |-> IF shape.status = "error" THEN r ELSE Undefined]

\* null / undefined where a snapshot is expected
Nil == [ref |-> Undefined, status |-> "none", data |-> Undefined, error |-> Undefined]

\* refs: f for the object flow f holds initially, then one per emission;
\* -id for the object the server script stores under id
InitialRef(f) == f
EmittedRef(k) == Cardinality(Flows) + k
HydratedRef(id) == 0 - id
\* what the server script carries for an id: the snapshot a server render
\* read, pending (with or without data) or success
HydratedShapes == {shape \in Shapes : shape.status # "error"}
HydratedValues(id) == {Snap(HydratedRef(id), shape) : shape \in HydratedShapes}

VARIABLES
    env,            \* "server" | "browser": typeof window === "undefined" or not
    snapshot,       \* snapshot[f]: what flow.getSnapshot() returns
    emits,          \* number of emissions so far
    listeners,      \* listeners[f]: consumers whose notify is subscribed to f
    previousStates, \* the module-level WeakMap of useAsyncFlow
    cur,            \* cur[c]: hook state of the committed fiber
    wip,            \* wip[c]: out[c] is a finished render waiting for its commit
    out,            \* out[c]: what the last useAsyncFlow call returned
    call,           \* call[c]: the accessor invocation made in the last step
    suspended,      \* suspended[c]: the last render of c threw a promise
    fs,             \* window._FS_ keyed by useId() of the consumer
    hydrationQueue, \* server manager: queued registrations
    flowHooks,      \* server manager: ids registered per flow
    pass,           \* render pass of a component with two useAsyncFlow calls
    coord,          \* useAsyncFlows: hooks of the committed fiber
    attempt,        \* useAsyncFlows: the last call and what it threw
    hosts,          \* hosts[c]: a component whose only hook is useFlow
    eff,            \* a component whose only hook is useFlowEffect
    mgr             \* a server hydration manager and the client's _FS_ map

vars == <<env, snapshot, emits, listeners, previousStates, cur, wip, out, call,
          suspended, fs, hydrationQueue, flowHooks,
         pass, coord, attempt, hosts, eff, mgr>>

\* ------------------------------------------------- presentation states
successState(state) ==
    [isLoading |-> FALSE, isError |-> FALSE, error |-> Undefined,
     isFetching |-> FALSE, currentData |-> state.data]

loadingState ==
    [isLoading |-> TRUE, isError |-> FALSE, error |-> Undefined,
     isFetching |-> TRUE, currentData |-> Undefined]

updatingState ==
    [isLoading |-> FALSE, isError |-> FALSE, error |-> Undefined,
     isFetching |-> TRUE, currentData |-> Undefined]

errorState(state) ==
    [isLoading |-> FALSE, isError |-> TRUE, error |-> state.error,
     isFetching |-> FALSE, currentData |-> state.data]

skippedState ==
    [isLoading |-> FALSE, isError |-> FALSE, error |-> Undefined,
     isFetching |-> FALSE, currentData |-> Undefined]

\* ------------------------------------------------------------ useFlow
getSnapshot(f) == IF f = skipToken THEN Nil ELSE snapshot[f]

\* client manager: hydrate(id) answers from window._FS_ when the id is there
hydrate(id) == fs[id]

\* (variant: the hydrated value is ignored)
getServerSnapshot_live(c, f, hydration) == getSnapshot(f)

\* the value getServerSnapshot returns (register is a no-op in the browser,
\* hydrate returns undefined on the server)
getServerSnapshot(c, f, hydration) ==
    IF f = skipToken THEN Nil
    ELSE IF hydration /\ env = "browser" /\ hydrate(c) # Nil THEN hydrate(c)
    ELSE snapshot[f]

\* ----------------------------------------------------------- useIsSsr
\* (variant: the detector answers with the client snapshot everywhere)
useIsSsr_client(hydrating) == FALSE

useIsSsr(hydrating) == env = "server" \/ hydrating

\* ------------------------------------------------------- useAsyncFlow
\* (variant: the phase is ignored, a first pending snapshot is Loading even
\* on the server and in the hydrating pass)
result_ssrLoading(state, flow, prevState, isSsr) ==
    IF state = Nil \/ flow = skipToken THEN skippedState
    ELSE IF state.status = "pending" THEN
        IF prevState # Nil /\ prevState.status = "success" THEN updatingState
        ELSE IF state.data # Undefined THEN updatingState
        ELSE loadingState
    ELSE IF state.status = "error" THEN errorState(state)
    ELSE successState(state)

\* (variant: a pending snapshot is never classified as Loading)
result_noLoading(state, flow, prevState, isSsr) ==
    IF state = Nil \/ flow = skipToken THEN skippedState
    ELSE IF state.status = "pending" THEN updatingState
    ELSE IF state.status = "error" THEN errorState(state)
    ELSE successState(state)

\* (variant: Updating exposes the pending snapshot's own data)
result_staleData(state, flow, prevState, isSsr) ==
    IF state = Nil \/ flow = skipToken THEN skippedState
    ELSE IF state.status = "pending" THEN
        IF prevState # Nil /\ prevState.status = "success" THEN updatingState
        ELSE IF state.data # Undefined
        THEN [updatingState EXCEPT !.currentData = state.data]
        ELSE IF isSsr THEN updatingState ELSE loadingState
    ELSE IF state.status = "error" THEN errorState(state)
    ELSE successState(state)

\* the `result` memo callback
result(state, flow, prevState, isSsr) ==
    IF state = Nil \/ flow = skipToken THEN skippedState
    ELSE IF state.status = "pending" THEN
        IF prevState # Nil /\ prevState.status = "success" THEN updatingState
        ELSE IF state.data # Undefined THEN updatingState
        ELSE IF isSsr THEN updatingState ELSE loadingState
    ELSE IF state.status = "error" THEN errorState(state)
    ELSE successState(state)

Returned(v) == [kind |-> "return", value |-> v]
ThrownPromise(flow) == [kind |-> "promise", value |-> flow]
\* (variant: the error is wrapped in a new object)
ThrownError_wrapped(e) == [kind |-> "error", value |-> 0 - e]

ThrownError(e) == [kind |-> "error", value |-> e]
ThrownFatal == [kind |-> "fatal", value |-> Undefined]

\* (variant: the accessor always works on the snapshot of its render)
readerState_frozen(state, flow, isSsr) == state

\* (variant: the accessor always re-reads the flow)
readerState_live(state, flow, isSsr) == getSnapshot(flow)

\* the snapshot the accessor works on
readerState(state, flow, isSsr) ==
    LET isServer == env = "server"
        isHydration == isSsr /\ ~isServer
    IN  IF ~isHydration THEN getSnapshot(flow) ELSE state

\* (variant: a pending snapshot suspends during hydration too)
pendingWithoutData_suspend(flow, isHydration) == ThrownPromise(flow)

\* (variant: the hydration test is inverted)
pendingWithoutData_inverted(flow, isHydration) ==
    IF isHydration THEN ThrownPromise(flow) ELSE ThrownFatal

\* the accessor on a pending snapshot with no data to return
pendingWithoutData(flow, isHydration) ==
    IF isHydration THEN ThrownFatal ELSE ThrownPromise(flow)

\* (variant: the pending snapshot's own data outranks the record)
reader_ownDataFirst(state, flow, isSsr) ==
    LET rs == readerState(state, flow, isSsr)
        prevState == previousStates[flow]
        isServer == env = "server"
        isHydration == isSsr /\ ~isServer
    IN  IF rs.status = "pending" THEN
            IF rs.data # Undefined THEN Returned(rs.data)
            ELSE IF prevState # Nil /\ prevState.status = "success"
            THEN Returned(prevState.data)
            ELSE pendingWithoutData(flow, isHydration)
        ELSE IF rs.status = "error" /\ rs.data = Undefined
        THEN ThrownError(rs.error)
        ELSE Returned(rs.data)

\* the closure returned by the `reader` memo callback, invoked
reader(state, flow, isSsr) ==
    LET rs == readerState(state, flow, isSsr)
        prevState == previousStates[flow]
        isServer == env = "server"
        isHydration == isSsr /\ ~isServer
    IN  IF rs.status = "pending" THEN
            IF prevState # Nil /\ prevState.status = "success"
            THEN Returned(prevState.data)
            ELSE IF rs.data # Undefined THEN Returned(rs.data)
            ELSE pendingWithoutData(flow, isHydration)
        ELSE IF rs.status = "error" /\ rs.data = Undefined
        THEN ThrownError(rs.error)
        ELSE Returned(rs.data)

\* ------------------------------------------------------- hook state
\* What React keeps for one useAsyncFlow call site: the dependencies and
\* the values of the three useMemo cells.  rid, sid and tid name the
\* accessor, the state object and the tuple: 0 is null, 1 is the object in
\* the committed fiber, 2 and 3 are objects made by renders that are not
\* committed (yet).
NoHook ==
    [mounted |-> FALSE, threw |-> "none", flow |-> skipToken, state |-> Nil,
     isSsr |-> FALSE, rid |-> 0, sid |-> 0, tid |-> 0, res |-> skippedState,
     committed |-> FALSE]

Ids == {2, 3}
FreshId(used) == CHOOSE i \in Ids : i \notin used

\* (variant: a dependency that is a new object in every render)
depsEqual_never(a, b) == FALSE

\* useMemo keeps its cell when the dependencies are Object.is-equal
depsEqual(a, b) == a = b

\* (variant: the hook itself suspends or throws, as it did before the
\* accessor was introduced)
thrownByHook_eager(state, flow, prevState) ==
    IF state = Nil \/ flow = skipToken THEN "none"
    ELSE IF state.status = "pending" /\ state.data = Undefined
            /\ ~(prevState # Nil /\ prevState.status = "success") THEN "promise"
    ELSE IF state.status = "error" THEN "error"
    ELSE "none"

\* (variant: the hook itself suspends on a pending snapshot without data)
thrownByHook_suspense(state, flow, prevState) ==
    IF state # Nil /\ flow # skipToken /\ state.status = "pending"
         /\ state.data = Undefined
    THEN "promise" ELSE "none"

\* what the hook body throws: it has no throw statement outside the accessor
thrownByHook(state, flow, prevState) == "none"

\* the body of useAsyncFlow after useFlow() and useIsSsr() returned
useAsyncFlow(c, flow, state, isSsr) ==
    LET base == cur[c]
        prevState == IF flow = skipToken THEN Nil ELSE previousStates[flow]
        sameReader == base.mounted
                        /\ depsEqual(<<base.flow, base.state, base.isSsr>>,
                                     <<flow, state, isSsr>>)
        sameResult == base.mounted
                        /\ depsEqual(<<base.state, base.flow, base.isSsr>>,
                                     <<state, flow, isSsr>>)
        isNull == state = Nil \/ flow = skipToken
        rid == IF sameReader THEN base.rid
               ELSE IF isNull THEN 0
               ELSE FreshId({out[c].rid})
        res == IF sameResult THEN base.res
               ELSE result(state, flow, prevState, isSsr)
        sid == IF sameResult THEN base.sid
               ELSE FreshId({out[c].sid})
        tid == IF base.mounted /\ depsEqual(<<base.rid, base.sid>>, <<rid, sid>>)
               THEN base.tid
               ELSE FreshId({out[c].tid})
    IN  [mounted |-> TRUE, threw |-> thrownByHook(state, flow, prevState),
         flow |-> flow, state |-> state,
         isSsr |-> isSsr, rid |-> rid, sid |-> sid, tid |-> tid, res |-> res,
         committed |-> FALSE]

\* ------------------------------------------------ accessor invocations
NoCall ==
    [kind |-> "none", value |-> Undefined, inRender |-> FALSE, hyd |-> FALSE,
     retry |-> FALSE, flow |-> skipToken, live |-> Nil, frozen |-> Nil,
     prev |-> Nil, res |-> skippedState]

NoCalls == [c \in Consumers |-> NoCall]

\* invoke the accessor returned in h; record what it did, and what the
\* flow, the side table and the render it came from looked like
Invoke(c, h, inRender) ==
    LET o == reader(h.state, h.flow, h.isSsr)
    IN  [kind |-> o.kind, value |-> o.value, inRender |-> inRender,
         hyd |-> h.isSsr /\ env # "server", retry |-> suspended[c],
         flow |-> h.flow, live |-> getSnapshot(h.flow), frozen |-> h.state,
         prev |-> previousStates[h.flow], res |-> h.res]

\* ------------------------------------------------------------ actions
\* flow.emit(value): a new snapshot object
Emit(f, shape) ==
    /\ emits < MaxEmit
    /\ emits' = emits + 1
    /\ snapshot' = [snapshot EXCEPT ![f] = Snap(EmittedRef(emits + 1), shape)]
    /\ call' = NoCalls
    /\ UNCHANGED <<env, listeners, previousStates, cur, wip, out, suspended, fs,
                   hydrationQueue, flowHooks>>

\* the inline script of the server runs in the browser, before hydrateRoot:
\* _FS_.m sets the pair
ServerScript(id, value) ==
    /\ env = "browser"
    /\ \A c \in Consumers : ~cur[c].mounted /\ ~out[c].mounted
    /\ fs' = [fs EXCEPT ![id] = value]
    /\ call' = NoCalls
    /\ UNCHANGED <<env, snapshot, emits, listeners, previousStates, cur, wip,
                   out, suspended, hydrationQueue, flowHooks>>

\* The component function runs in the browser: useFlow, useIsSsr,
\* useAsyncFlow, and (doCall) the component invokes the accessor itself.
\* A throw from the accessor aborts the render: nothing of it is committed.
Render(c, flow, hydrating, hydration, doCall) ==
    /\ env = "browser"
    /\ hydrating => ~cur[c].mounted
    /\ hydration => hydrating
    /\ LET isSsr == useIsSsr(hydrating)
           state == IF hydrating THEN getServerSnapshot(c, flow, hydration)
                    ELSE getSnapshot(flow)
           h == useAsyncFlow(c, flow, state, isSsr)
           called == doCall /\ h.rid # 0 /\ h.threw = "none"
           rec == IF called THEN Invoke(c, h, TRUE) ELSE NoCall
           aborted == h.threw # "none" \/ (called /\ rec.kind # "return")
       IN  /\ out' = [out EXCEPT ![c] = h]
           /\ call' = [NoCalls EXCEPT ![c] = rec]
           /\ wip' = [wip EXCEPT ![c] = ~aborted]
           /\ suspended' = [suspended EXCEPT ![c] = rec.kind = "promise"]
    /\ UNCHANGED <<env, snapshot, emits, listeners, previousStates, cur, fs,
                   hydrationQueue, flowHooks>>

\* The component function runs on the server.  getServerSnapshot registers
\* the value when a FlowHydrationProvider is in scope; no effect ever runs.
ServerRender(c, flow, hydration, doCall) ==
    /\ env = "server"
    /\ LET isSsr == useIsSsr(FALSE)
           state == getServerSnapshot(c, flow, hydration)
           h == useAsyncFlow(c, flow, state, isSsr)
           called == doCall /\ h.rid # 0 /\ h.threw = "none"
           rec == IF called THEN Invoke(c, h, TRUE) ELSE NoCall
       IN  /\ out' = [out EXCEPT ![c] = h]
           /\ call' = [NoCalls EXCEPT ![c] = rec]
           /\ suspended' = [suspended EXCEPT ![c] = rec.kind = "promise"]
    /\ IF hydration /\ flow # skipToken
       THEN /\ hydrationQueue' = [hydrationQueue EXCEPT ![c] = snapshot[flow]]
            /\ flowHooks' = [flowHooks EXCEPT ![flow] = @ \cup {c}]
       ELSE UNCHANGED <<hydrationQueue, flowHooks>>
    /\ UNCHANGED <<env, snapshot, emits, listeners, previousStates, cur, wip, fs>>

\* (variant: the old subscription is not cleaned up)
subscribeEffect_noCleanup(c, old, new) ==
    IF new.flow # skipToken THEN [listeners EXCEPT ![new.flow] = @ \cup {c}]
    ELSE listeners

\* the useSyncExternalStore subscription effect of useFlow (deps: subscribe,
\* which changes with flow): cleanup of the old one, then subscribe
subscribeEffect(c, old, new) ==
    LET removed == IF old.mounted /\ old.flow # skipToken /\ old.flow # new.flow
                   THEN [listeners EXCEPT ![old.flow] = @ \ {c}]
                   ELSE listeners
    IN  IF new.flow # skipToken /\ (~old.mounted \/ old.flow # new.flow)
        THEN [removed EXCEPT ![new.flow] = @ \cup {c}]
        ELSE removed

\* (variant: the effect never records)
previousStatesEffect_skipped(old, new) == previousStates

\* useEffect(() => previousStates.set(flow, state), [flow, state])
previousStatesEffect(old, new) ==
    IF (~old.mounted \/ old.flow # new.flow \/ old.state # new.state)
         /\ new.flow # skipToken /\ new.state # Nil
    THEN [previousStates EXCEPT ![new.flow] = new.state]
    ELSE previousStates

\* the finished render becomes the committed fiber
commitFiber(h) ==
    [h EXCEPT !.committed = TRUE, !.rid = IF h.rid = 0 THEN 0 ELSE 1,
              !.sid = 1, !.tid = 1]

\* React commits the finished render of c: its effects run
Commit(c) ==
    /\ env = "browser"
    /\ wip[c]
    /\ LET new == commitFiber(out[c])
       IN  /\ listeners' = subscribeEffect(c, cur[c], new)
           /\ previousStates' = previousStatesEffect(cur[c], new)
           /\ cur' = [cur EXCEPT ![c] = new]
           /\ out' = [out EXCEPT ![c] = new]
    /\ wip' = [wip EXCEPT ![c] = FALSE]
    /\ call' = NoCalls
    /\ UNCHANGED <<env, snapshot, emits, suspended, fs, hydrationQueue, flowHooks>>

\* someone who holds the accessor of the last render (a child component, an
\* event handler) invokes it
InvokeAccessor(c) ==
    /\ out[c].mounted /\ out[c].rid # 0
    /\ call' = [NoCalls EXCEPT ![c] = Invoke(c, out[c], FALSE)]
    /\ UNCHANGED <<env, snapshot, emits, listeners, previousStates, cur, wip,
                   out, suspended, fs, hydrationQueue, flowHooks>>

\* (variant: unmounting leaves the subscription in place)
unmountCleanup_leak(c) == listeners

\* the cleanup of the subscription effect at unmount: unsubscribe
unmountCleanup(c) == [f \in Flows |-> listeners[f] \ {c}]

\* the component unmounts: effect cleanups run, the fiber is dropped
Unmount(c) ==
    /\ cur[c].mounted
    /\ listeners' = unmountCleanup(c)
    /\ cur' = [cur EXCEPT ![c] = NoHook]
    /\ out' = [out EXCEPT ![c] = NoHook]
    /\ wip' = [wip EXCEPT ![c] = FALSE]
    /\ suspended' = [suspended EXCEPT ![c] = FALSE]
    /\ call' = NoCalls
    /\ UNCHANGED <<env, snapshot, emits, previousStates, fs, hydrationQueue,
                   flowHooks>>

\* flows that no component of the configuration is given stay idle
IdleShape == [status |-> "pending", hasData |-> FALSE]

InitFor(FS) ==
    /\ env \in Envs
    /\ \E shapes \in [Flows -> Shapes] :
         /\ \A f \in Flows \ FS : shapes[f] = IdleShape
         /\ snapshot = [f \in Flows |-> Snap(InitialRef(f), shapes[f])]
    /\ emits = 0
    /\ listeners = [f \in Flows |-> {}]
    /\ previousStates = [f \in Flows |-> Nil]
    /\ cur = [c \in Consumers |-> NoHook]
    /\ wip = [c \in Consumers |-> FALSE]
    /\ out = [c \in Consumers |-> NoHook]
    /\ call = NoCalls
    /\ suspended = [c \in Consumers |-> FALSE]
    /\ fs = [c \in Consumers |-> Nil]
    /\ hydrationQueue = [c \in Consumers |-> Nil]
    /\ flowHooks = [f \in Flows |-> {}]

NextFor(CS, FS) ==
    \/ \E f \in FS, shape \in Shapes : Emit(f, shape)
    \/ \E id \in CS : \E value \in HydratedValues(id) : ServerScript(id, value)
    \/ \E c \in CS, flow \in FS \cup {skipToken},
          hydrating \in BOOLEAN, hydration \in BOOLEAN, doCall \in BOOLEAN :
            Render(c, flow, hydrating, hydration, doCall)
    \/ \E c \in CS, flow \in FS \cup {skipToken},
          hydration \in BOOLEAN, doCall \in BOOLEAN :
            ServerRender(c, flow, hydration, doCall)
    \/ \E c \in CS : Commit(c)
    \/ \E c \in CS : InvokeAccessor(c)
    \/ \E c \in CS : Unmount(c)

\* ------------------------------------ a component with two useAsyncFlow
\* TestComponent of the parallel-loading tests: hook slot c is given flow c.
\* "parallel" calls both hooks and then both accessors, "waterfall" calls
\* the first accessor before the second hook.
FlowOf(c) == c

Program(style) ==
    IF style = "parallel"
    THEN <<[op |-> "hook", slot |-> 1], [op |-> "hook", slot |-> 2],
           [op |-> "call", slot |-> 1], [op |-> "call", slot |-> 2]>>
    ELSE <<[op |-> "hook", slot |-> 1], [op |-> "call", slot |-> 1],
           [op |-> "hook", slot |-> 2], [op |-> "call", slot |-> 2]>>

Styles == {"parallel", "waterfall"}

\* pc = 0: no pass is running (thrown, by, value, reads tell how the last
\* one ended); pc = Len + 1: the function returned, waiting for the commit
NoPass ==
    [style |-> "parallel", pc |-> 0, reads |-> {}, thrown |-> "none",
     by |-> 0, value |-> Undefined]

\* the flows whose getSnapshot() was called in this pass
Reads == pass.reads

\* React calls the component function
PassBegin(style) ==
    /\ env = "browser"
    /\ pass.pc = 0
    /\ \A c \in Consumers : cur[c].mounted => cur[c].flow = FlowOf(c)
    /\ pass' = [NoPass EXCEPT !.style = style, !.pc = 1]
    /\ call' = NoCalls
    /\ UNCHANGED <<env, snapshot, emits, listeners, previousStates, cur, wip,
                   out, suspended, fs, hydrationQueue, flowHooks>>

\* the next statement of the function is  const [dataC] = useAsyncFlow(flowC)
PassHook(c) ==
    /\ pass.pc \in 1..Len(Program(pass.style))
    /\ Program(pass.style)[pass.pc] = [op |-> "hook", slot |-> c]
    /\ LET flow == FlowOf(c)
           h == useAsyncFlow(c, flow, getSnapshot(flow), useIsSsr(FALSE))
       IN  /\ out' = [out EXCEPT ![c] = h]
           /\ pass' = IF h.threw = "none"
                      THEN [pass EXCEPT !.pc = @ + 1, !.reads = @ \cup {flow}]
                      ELSE [pass EXCEPT !.pc = 0, !.reads = @ \cup {flow},
                                        !.thrown = h.threw, !.by = c,
                                        !.value = flow]
           /\ suspended' = [suspended EXCEPT ![c] = h.threw = "promise"]
    /\ call' = NoCalls
    /\ UNCHANGED <<env, snapshot, emits, listeners, previousStates, cur, wip,
                   fs, hydrationQueue, flowHooks>>

\* the next statement of the function is  dataC()
PassCall(c) ==
    /\ pass.pc \in 1..Len(Program(pass.style))
    /\ Program(pass.style)[pass.pc] = [op |-> "call", slot |-> c]
    /\ LET rec == Invoke(c, out[c], TRUE)
       IN  /\ call' = [NoCalls EXCEPT ![c] = rec]
           /\ pass' = IF rec.kind = "return"
                      THEN [pass EXCEPT !.pc = @ + 1,
                                        !.reads = @ \cup {FlowOf(c)}]
                      ELSE [pass EXCEPT !.pc = 0,
                                        !.reads = @ \cup {FlowOf(c)},
                                        !.thrown = rec.kind, !.by = c,
                                        !.value = rec.value]
           /\ suspended' = [suspended EXCEPT ![c] = rec.kind = "promise"]
    /\ UNCHANGED <<env, snapshot, emits, listeners, previousStates, cur, wip,
                   out, fs, hydrationQueue, flowHooks>>

\* the function returned: React commits, the effects of both hooks run
PassCommit ==
    /\ pass.pc = Len(Program(pass.style)) + 1
    /\ LET new == [c \in Consumers |-> commitFiber(out[c])]
           subs == [c \in Consumers |-> subscribeEffect(c, cur[c], new[c])]
           recs == [c \in Consumers |-> previousStatesEffect(cur[c], new[c])]
       IN  /\ listeners' = [f \in Flows |->
                               {c \in Consumers : c \in subs[c][f]}]
           /\ previousStates' =
                [f \in Flows |->
                   recs[CHOOSE c \in Consumers : FlowOf(c) = f][f]]
           /\ cur' = new
           /\ out' = new
    /\ pass' = [pass EXCEPT !.pc = 0]
    /\ call' = NoCalls
    /\ UNCHANGED <<env, snapshot, emits, wip, suspended, fs, hydrationQueue,
                   flowHooks>>

\* ------------------------------------------------------ useAsyncFlows
\* useAsyncFlows maps its entries through the useAsyncFlow that takes
\* options and returns one state object (or throws inside its useMemo).
MaxEntries == 2
MaxMounts == 2

\* the lists a component passes: entry i is flow i or skipToken
Lists ==
    UNION {{list \in [1..n -> Flows \cup {skipToken}] :
              \A i \in 1..n :
                 list[i] \in {skipToken} \cup ({FlowOf(i)} \cap Flows)} :
           n \in 0..MaxEntries}

NullResult ==
    [isLoading |-> FALSE, isError |-> FALSE, data |-> Undefined,
     error |-> Undefined, isFetching |-> FALSE, currentData |-> Undefined,
     null |-> TRUE]

successStateOpt(state) ==
    [isLoading |-> FALSE, isError |-> FALSE, data |-> state.data,
     error |-> Undefined, isFetching |-> FALSE, currentData |-> state.data,
     null |-> FALSE]

updatingStateOpt(data) ==
    [isLoading |-> FALSE, isError |-> FALSE, data |-> data,
     error |-> Undefined, isFetching |-> TRUE, currentData |-> Undefined,
     null |-> FALSE]

errorStateOpt(state, prevState) ==
    [isLoading |-> FALSE, isError |-> TRUE,
     data |-> IF state.data # Undefined THEN state.data ELSE prevState.data,
     error |-> state.error, isFetching |-> FALSE, currentData |-> Undefined,
     null |-> FALSE]

\* hooks of one entry in the committed fiber: useFlow's state, the memo
\* cell with its dependencies, prevStateRef.current
NoSlot ==
    [exists |-> FALSE, flow |-> skipToken, state |-> Nil, eb |-> TRUE,
     res |-> NullResult, prev |-> Nil]

NoCoord ==
    [mounted |-> FALSE, length |-> 0, hasBeenMounted |-> FALSE,
     slots |-> <<>>]

NoPromises == [f \in Flows |-> "none"]

NoAttempt ==
    [made |-> FALSE, list |-> <<>>, eb |-> TRUE, cause |-> "props",
     wasMounted |-> FALSE, lengthRef |-> 0, thrown |-> "none",
     collected |-> {}, by |-> 0, value |-> Undefined, slots |-> <<>>,
     prevThrown |-> "none", prevLen |-> 0, woke |-> NoPromises,
     promises |-> NoPromises, wip |-> FALSE]

\* one call of useAsyncFlow(flow, { errorBoundary }) for entry i:
\* [thrown, value, slot]
useAsyncFlowOpt(base, flow, eb) ==
    LET state == getSnapshot(flow)
        prevState == IF base.exists THEN base.prev ELSE state
        cached == base.exists /\ depsEqual(<<base.state, base.flow, base.eb>>,
                                           <<state, flow, eb>>)
        slot(res) == [exists |-> TRUE, flow |-> flow, state |-> state,
                      eb |-> eb, res |-> res, prev |-> prevState]
        ok(res) == [thrown |-> "none", value |-> Undefined, slot |-> slot(res)]
        throw(kind, v) == [thrown |-> kind, value |-> v, slot |-> NoSlot]
    IN  IF cached THEN ok(base.res)
        ELSE IF state = Nil \/ flow = skipToken THEN ok(NullResult)
        ELSE IF state.status = "pending" THEN
            IF prevState = Nil \/ prevState.status # "success" THEN
                IF state.data # Undefined THEN ok(updatingStateOpt(state.data))
                ELSE throw("promise", flow)
            ELSE ok(updatingStateOpt(prevState.data))
        ELSE IF state.status = "error" THEN
            IF eb THEN throw("error", state.error)
            ELSE ok(errorStateOpt(state, IF prevState = Nil THEN Nil ELSE prevState))
        ELSE ok(successStateOpt(state))

\* (variant: the loop does not look at hasBeenMountedRef)
RECURSIVE preScan_always(_, _, _)
preScan_always(list, i, hasBeenMounted) ==
    IF i > Len(list) THEN {}
    ELSE IF list[i] = skipToken THEN {}
    ELSE LET state == getSnapshot(list[i])
         IN  IF state.status = "pending"
             THEN IF state.data # Undefined THEN {}
                  ELSE {list[i]} \cup preScan_always(list, i + 1, hasBeenMounted)
             ELSE preScan_always(list, i + 1, hasBeenMounted)

\* the for loop over flows: the flows whose asPromise() is pushed
RECURSIVE preScan(_, _, _)
preScan(list, i, hasBeenMounted) ==
    IF i > Len(list) THEN {}
    ELSE IF list[i] = skipToken THEN {}
    ELSE LET state == getSnapshot(list[i])
         IN  IF state.status = "pending" /\ ~hasBeenMounted
             THEN IF state.data # Undefined THEN {}
                  ELSE {list[i]} \cup preScan(list, i + 1, hasBeenMounted)
             ELSE preScan(list, i + 1, hasBeenMounted)

\* flows.map(useAsyncFlow): the first entry that throws ends the call
RECURSIVE mapEntries(_, _, _, _)
mapEntries(list, eb, i, done) ==
    IF i > Len(list)
    THEN [thrown |-> "none", by |-> 0, value |-> Undefined, slots |-> done]
    ELSE LET base == IF coord.mounted /\ i <= Len(coord.slots)
                     THEN coord.slots[i] ELSE NoSlot
             r == useAsyncFlowOpt(base, list[i], eb)
         IN  IF r.thrown # "none"
             THEN [thrown |-> r.thrown, by |-> i, value |-> r.value,
                   slots |-> done]
             ELSE mapEntries(list, eb, i + 1, Append(done, r.slot))

\* (variant: the length is kept outside the component instance)
lengthRef_shared(n) ==
    IF coord.mounted THEN coord.length
    ELSE IF attempt.made THEN attempt.lengthRef ELSE n

\* useRef(flows.length): the committed fiber's ref, or a new one
lengthRef(n) == IF coord.mounted THEN coord.length ELSE n

\* (variant: only a longer list is reported)
arityChanged_grow(ref, n) == n > ref

\* lengthRef.current !== flows.length
arityChanged(ref, n) == ref # n

\* the promise of each flow in ps: pending, or settled by a later emission
newPromises(ps) == [f \in Flows |-> IF f \in ps THEN "pending" ELSE "none"]

\* (variant: Promise.race)
promiseAll_race(promises) ==
    \E f \in Flows : promises[f] \in {"resolved", "failed"}

\* Promise.all(promises) is settled: all resolved, or one rejected
promiseAll(promises) ==
    \/ \A f \in Flows : promises[f] \in {"none", "resolved"}
    \/ \E f \in Flows : promises[f] = "failed"

\* the body of useAsyncFlows, called with props (list, eb)
callUseAsyncFlows(list, eb, cause) ==
    LET ref == lengthRef(Len(list))
        hasBeenMounted == coord.mounted /\ coord.hasBeenMounted
        collected == preScan(list, 1, hasBeenMounted)
        m == mapEntries(list, eb, 1, <<>>)
        head == [NoAttempt EXCEPT !.made = TRUE, !.list = list, !.eb = eb,
                     !.cause = cause, !.wasMounted = coord.mounted,
                     !.lengthRef = ref, !.prevThrown = attempt.thrown,
                     !.prevLen = Len(attempt.list),
                     !.woke = IF cause = "retry" THEN attempt.promises
                              ELSE NoPromises]
    IN  IF arityChanged(ref, Len(list))
        THEN [head EXCEPT !.thrown = "arity"]
        ELSE IF collected # {}
        THEN [head EXCEPT !.thrown = "all", !.collected = collected,
                          !.promises = newPromises(collected)]
        ELSE IF m.thrown = "promise"
        THEN [head EXCEPT !.thrown = "promise", !.by = m.by, !.value = m.value,
                          !.promises = newPromises({m.value})]
        ELSE IF m.thrown = "error"
        THEN [head EXCEPT !.thrown = "error", !.by = m.by, !.value = m.value]
        ELSE [head EXCEPT !.slots = m.slots, !.wip = TRUE]

\* a thrown error reaches the ErrorBoundary, which unmounts the component
RenderFlows(list, eb, cause) ==
    LET a == callUseAsyncFlows(list, eb, cause)
        failed == a.thrown \in {"arity", "error"}
    IN  /\ attempt' = a
        /\ coord' = IF failed THEN NoCoord ELSE coord
        /\ listeners' = IF failed THEN [f \in Flows |-> {}] ELSE listeners
        /\ UNCHANGED <<env, snapshot, emits, previousStates, cur, wip, out,
                       call, suspended, fs, hydrationQueue, flowHooks, pass>>

\* the parent renders the component with a (new) list; the options object
\* is the one the component was written with
RerenderFlows(list) ==
    /\ env = "browser"
    /\ RenderFlows(list, attempt.eb, "props")

\* React retries the suspended component when the thrown promise settles
RetryFlows ==
    /\ env = "browser"
    /\ attempt.thrown \in {"all", "promise"}
    /\ promiseAll(attempt.promises)
    /\ RenderFlows(attempt.list, attempt.eb, "retry")

\* commit: subscriptions, prevStateRef.current = state, hasBeenMountedRef
CommitFlows ==
    /\ attempt.wip
    /\ coord' = [mounted |-> TRUE, length |-> attempt.lengthRef,
                 hasBeenMounted |-> TRUE,
                 slots |-> [i \in DOMAIN attempt.slots |->
                              [attempt.slots[i] EXCEPT
                                 !.prev = attempt.slots[i].state]]]
    /\ listeners' = [f \in Flows |->
                       {i \in DOMAIN attempt.list : attempt.list[i] = f}]
    /\ attempt' = [NoAttempt EXCEPT !.made = TRUE, !.list = attempt.list,
                                    !.eb = attempt.eb,
                                    !.lengthRef = attempt.lengthRef]
    /\ UNCHANGED <<env, snapshot, emits, previousStates, cur, wip, out, call,
                   suspended, fs, hydrationQueue, flowHooks, pass>>

\* flow.emit with the promises handed out by asPromise()
EmitFlows(f, shape) ==
    /\ Emit(f, shape)
    /\ attempt' =
         [attempt EXCEPT !.promises[f] =
            IF @ # "pending" THEN @
            ELSE IF shape.status = "success" THEN "resolved"
            ELSE IF shape.status = "error" THEN "failed"
            ELSE "pending"]
    /\ UNCHANGED <<pass, coord>>


\* ------------------------------------------- a component with useFlow
\* the values of the useFlow scenarios are plain objects
PlainShape == [status |-> "success", hasData |-> TRUE]
NoFlow == 0 - 1

\* hook state of one useFlow consumer.  Committed fiber: the source it is
\* subscribed to and the value useSyncExternalStore last committed; `dirty`
\* is a re-render scheduled by the store listener.  w*: a finished render
\* waiting for its commit.
NoHost ==
    [mounted |-> FALSE, flow |-> skipToken, value |-> Nil, hyd |-> FALSE,
     dirty |-> FALSE, notified |-> FALSE, prevFlow |-> NoFlow,
     wip |-> FALSE, wflow |-> skipToken, wvalue |-> Nil, whyd |-> FALSE,
     wprov |-> FALSE]

NoHosts == [c \in Consumers |-> NoHost]
\* useFlowEffect: the closure of the running effect (flow, cancelled as
\* `gen` differing from a microtask's, prevSnapshot, teardown defined or
\* not), the handler's invocations, the microtask queue, and a record of
\* the current synchronous turn
NoEff ==
    [mounted |-> FALSE, flow |-> skipToken, gen |-> 0, prevSnapshot |-> Nil,
     armed |-> FALSE, returnsTeardown |-> FALSE,
     ncalls |-> 0, lastValue |-> Nil, teardowns |-> 0,
     lastBy |-> 0, torn |-> <<>>, nsubs |-> 0,
     supplied |-> 0, handlerRef |-> 0, lastHandler |-> 0,
     queue |-> <<>>, phase |-> "sync",
     turnKind |-> "none", turnOpen |-> FALSE, turnN |-> 0, turnBase |-> 0,
     turnTd |-> 0, turnPrev |-> Nil, turnGen |-> 0, turnMoved |-> FALSE]

\* ids handed to the manager, the values registered (0 is a falsy value),
\* and `undefined`
HookIds == {1, 2}
Values == {0, 1, 2}
Absent == 0 - 1

\* The last fields belong to the useFlow calls made against the managers:
\* the last getServerSnapshot call (side, id, provider in scope, value
\* returned, whether it was a recalled record), per id the number of server
\* calls with a provider in scope, of register calls they made, and of
\* client calls that got the record since a script last wrote the id.
\* createFlowHydrationManager(): hydrationQueue (a Map, in insertion order),
\* flowHooks, cache (per value the Set of ids, in insertion order),
\* sentValues, coreHasBeenEmitted; the client's window._FS_; what the last
\* call was and returned; per id the value that was registered when a
\* getScript last covered the id
NoMgr ==
    [hydrationQueue |-> <<>>,
     flowHooks |-> [f \in Flows |-> {}],
     cache |-> [v \in Values |-> <<>>],
     sentValues |-> [id \in HookIds |-> Absent],
     coreHasBeenEmitted |-> FALSE,
     client |-> [id \in HookIds |-> Absent],
     covered |-> [id \in HookIds |-> Absent],
     serialized |-> [id \in HookIds |-> Absent],
     op |-> "none", arg |-> NoFlow, scanned |-> {}, m |-> {}, d |-> <<>>,
     null |-> FALSE, core |-> FALSE, returned |-> FALSE,
     rside |-> "none", rid |-> 0, rprov |-> FALSE, ret |-> Absent,
     recalled |-> FALSE,
     nread |-> [id \in HookIds |-> 0], nreg |-> [id \in HookIds |-> 0],
     nrecall |-> [id \in HookIds |-> 0]]

\* (variant: every notification schedules a re-render)
storeChanged_always(value, snap) == TRUE

\* useSyncExternalStore's listener and its post-commit check: re-render
\* when getSnapshot() is not Object.is-equal to the committed value
storeChanged(value, snap) == snap # value

\* flow.emit(value): the same object again, or a new one; every listener of
\* the flow is notified
EmitUse(f, same) ==
    /\ emits < MaxEmit
    /\ emits' = emits + 1
    /\ snapshot' = [snapshot EXCEPT ![f] =
                      IF same THEN @ ELSE Snap(EmittedRef(emits + 1), PlainShape)]
    /\ hosts' = [c \in Consumers |->
                   IF c \in listeners[f]
                   THEN [hosts[c] EXCEPT
                           !.notified = TRUE,
                           !.dirty = @ \/ storeChanged(hosts[c].value, snapshot'[f])]
                   ELSE hosts[c]]
    /\ UNCHANGED <<env, listeners, fs>>

\* the server's inline script, before hydrateRoot
ScriptUse(id) ==
    /\ \A c \in Consumers : ~hosts[c].mounted /\ ~hosts[c].wip
    /\ fs[id] = Nil
    /\ fs' = [fs EXCEPT ![id] = Snap(HydratedRef(id), PlainShape)]
    /\ UNCHANGED <<env, snapshot, emits, listeners, hosts>>

\* the component function runs: useFlow(flow) returns wvalue
RenderUse(c, flow, hydrating, hydration) ==
    /\ hydrating => ~hosts[c].mounted
    /\ hydration => hydrating
    /\ hosts' = [hosts EXCEPT ![c] =
                   [@ EXCEPT !.wip = TRUE, !.wflow = flow,
                             !.wvalue = IF hydrating
                                        THEN getServerSnapshot(c, flow, hydration)
                                        ELSE getSnapshot(flow),
                             !.whyd = hydrating, !.wprov = hydration]]
    /\ UNCHANGED <<env, snapshot, emits, listeners, fs>>

\* React commits the render: the subscription effect runs, and the store is
\* checked once more for a change since the render
CommitUse(c) ==
    /\ hosts[c].wip
    /\ LET h == hosts[c]
       IN  /\ listeners' = subscribeEffect(c, [mounted |-> h.mounted, flow |-> h.flow],
                                           [mounted |-> TRUE, flow |-> h.wflow])
           /\ hosts' = [hosts EXCEPT ![c] =
                          [h EXCEPT !.mounted = TRUE, !.flow = h.wflow,
                                    !.value = h.wvalue, !.hyd = h.whyd,
                                    !.dirty = storeChanged(h.wvalue, getSnapshot(h.wflow)),
                                    !.notified = FALSE,
                                    !.prevFlow = IF h.mounted THEN h.flow ELSE NoFlow,
                                    !.wip = FALSE, !.wflow = skipToken,
                                    !.wvalue = Nil, !.whyd = FALSE,
                                    !.wprov = FALSE]]
    /\ UNCHANGED <<env, snapshot, emits, fs>>

UnmountUse(c) ==
    /\ hosts[c].mounted
    /\ listeners' = unmountCleanup(c)
    /\ hosts' = [hosts EXCEPT ![c] = NoHost]
    /\ UNCHANGED <<env, snapshot, emits, fs>>

\* the configuration: host 1 is part of the server markup and is given
\* either flow or skipToken, host 2 is client-only and is given flow 1 or
\* skipToken
HydratedHosts == {1}
PropsOf(c) == IF c = 1 THEN Flows \cup {skipToken} ELSE {1, skipToken}

\* what the useFlow scenarios leave alone
IdleUse ==
    UNCHANGED <<previousStates, cur, wip, out, call, suspended, hydrationQueue,
               flowHooks, pass, coord, attempt, eff, mgr>>

InitUse ==
    /\ env = "browser"
    /\ snapshot = [f \in Flows |-> Snap(InitialRef(f), PlainShape)]
    /\ emits = 0
    /\ listeners = [f \in Flows |-> {}]
    /\ previousStates = [f \in Flows |-> Nil]
    /\ cur = [c \in Consumers |-> NoHook]
    /\ wip = [c \in Consumers |-> FALSE]
    /\ out = [c \in Consumers |-> NoHook]
    /\ call = NoCalls
    /\ suspended = [c \in Consumers |-> FALSE]
    /\ fs = [c \in Consumers |-> Nil]
    /\ hydrationQueue = [c \in Consumers |-> Nil]
    /\ flowHooks = [f \in Flows |-> {}]
    /\ pass = NoPass /\ coord = NoCoord /\ attempt = NoAttempt
    /\ hosts = NoHosts /\ eff = NoEff /\ mgr = NoMgr

NextUse ==
    \/ \E f \in Flows, same \in BOOLEAN : EmitUse(f, same) /\ IdleUse
    \/ \E id \in HydratedHosts : ScriptUse(id) /\ IdleUse
    \/ \E c \in Consumers : \E flow \in PropsOf(c) :
        \E hydrating \in BOOLEAN, hydration \in BOOLEAN :
            /\ hydrating => c \in HydratedHosts
            /\ RenderUse(c, flow, hydrating, hydration) /\ IdleUse
    \/ \E c \in Consumers : CommitUse(c) /\ IdleUse
    \/ \E c \in Consumers : UnmountUse(c) /\ IdleUse

SpecUse == InitUse /\ [][NextUse]_vars


\* ------------------------------------ a component with useFlowEffect
\* (variant: the microtask does not compare the snapshot)
snapshotChanged_always(snap, prevSnapshot) == TRUE

\* (variant: no snapshot counts as a change)
snapshotChanged_never(snap, prevSnapshot) == FALSE

\* if (snapshot !== prevSnapshot)
snapshotChanged(snap, prevSnapshot) == snap # prevSnapshot

\* the handler functions a render can supply
Handlers == {1, 2}
\* the listener of the component's effect
EffId == 1

\* (variant: the ref keeps the handler of the mount)
handlerRefEffect_stale(e, handler) == e.handlerRef

\* useEffect(() => { handlerRef.current = handler }, [handler])
handlerRefEffect(e, handler) == handler

\* handlerRef.current(value) called by the closure of effect run `by`,
\* after the teardown of the invocation before
callHandler(e, value, by) ==
    [e EXCEPT !.teardowns = IF e.armed THEN @ + 1 ELSE @,
              !.torn = IF e.armed THEN Append(@, e.ncalls) ELSE @,
              !.armed = e.returnsTeardown,
              !.ncalls = @ + 1, !.lastValue = value,
              !.lastBy = by, !.lastHandler = e.handlerRef]

\* the effect body for `flow` (deps: [flow])
runEffect(e, flow) ==
    IF flow = skipToken
    THEN [e EXCEPT !.mounted = TRUE, !.flow = flow, !.gen = @ + 1,
                   !.prevSnapshot = Nil, !.armed = FALSE]
    ELSE callHandler([e EXCEPT !.mounted = TRUE, !.flow = flow, !.gen = @ + 1,
                               !.prevSnapshot = getSnapshot(flow),
                               !.armed = FALSE, !.nsubs = @ + 1],
                     getSnapshot(flow), e.gen + 1)

\* (variant: the cleanup forgets the teardown)
cleanupEffect_noTeardown(e) == [e EXCEPT !.armed = FALSE]

\* the cleanup the effect returned: unsubscribe, cancelled = true, teardown
cleanupEffect(e) ==
    IF e.flow = skipToken THEN e
    ELSE [e EXCEPT !.teardowns = IF e.armed THEN @ + 1 ELSE @,
                   !.torn = IF e.armed THEN Append(@, e.ncalls) ELSE @,
                   !.armed = FALSE]

\* flow.subscribe(listener) / sub.unsubscribe() of the effect
subscribeEff(ls, flow) ==
    IF flow = skipToken THEN ls ELSE [ls EXCEPT ![flow] = @ \cup {EffId}]

unsubscribeEff(ls, flow) ==
    IF flow = skipToken THEN ls ELSE [ls EXCEPT ![flow] = @ \ {EffId}]

\* (variant: a microtask never finds itself cancelled)
cancelled_never(e, g) == FALSE

\* `cancelled` as the closure of effect run g sees it
cancelled(e, g) == ~e.mounted \/ g # e.gen

\* the component mounts with `handler`: useRef(handler), then the effects
MountEff(flow, handler) ==
    /\ ~eff.mounted /\ eff.phase = "sync" /\ eff.gen < MaxMounts
    /\ LET e == runEffect([eff EXCEPT !.supplied = handler,
                                      !.handlerRef = handler], flow)
       IN  eff' = IF eff.turnOpen THEN e
                  ELSE [e EXCEPT !.turnKind = "mount", !.turnN = 0,
                                 !.turnBase = eff.ncalls,
                                 !.turnTd = eff.teardowns,
                                 !.turnPrev = Nil, !.turnGen = e.gen]
    /\ listeners' = subscribeEff(listeners, flow)
    /\ UNCHANGED <<snapshot, emits>>

\* a re-render with another flow (and any handler) is committed: cleanup,
\* the handler effect, then the effect runs again
ChangeFlowEff(flow, handler) ==
    /\ eff.mounted /\ eff.flow # flow /\ eff.phase = "sync"
    /\ eff.gen < MaxMounts
    /\ LET cleaned == cleanupEffect(eff)
           e == [cleaned EXCEPT
                   !.supplied = handler,
                   !.handlerRef = IF handler = eff.supplied THEN @
                                  ELSE handlerRefEffect(cleaned, handler)]
       IN  eff' = runEffect(e, flow)
    /\ listeners' = subscribeEff(unsubscribeEff(listeners, eff.flow), flow)
    /\ UNCHANGED <<snapshot, emits>>

\* a re-render with the same flow and another handler is committed: only
\* the handler effect runs
RehandleEff(handler) ==
    /\ eff.mounted /\ eff.phase = "sync"
    /\ handler # eff.supplied
    /\ eff' = [eff EXCEPT !.supplied = handler,
                          !.handlerRef = handlerRefEffect(eff, handler)]
    /\ UNCHANGED <<snapshot, emits, listeners>>

UnmountEff ==
    /\ eff.mounted /\ eff.phase = "sync"
    /\ eff' = [cleanupEffect(eff) EXCEPT !.mounted = FALSE]
    /\ listeners' = unsubscribeEff(listeners, eff.flow)
    /\ UNCHANGED <<snapshot, emits>>

\* flow.emit(value) in synchronous code: the object the flow holds, a new
\* one, or the one it held first; the subscribed listener queues a microtask
EmitEff(f, what) ==
    /\ eff.phase = "sync"
    /\ emits < MaxEmit
    /\ emits' = emits + 1
    /\ snapshot' = [snapshot EXCEPT ![f] =
                      IF what = "same" THEN @
                      ELSE IF what = "first" THEN Snap(InitialRef(f), PlainShape)
                      ELSE Snap(EmittedRef(emits + 1), PlainShape)]
    /\ eff' = IF EffId \in listeners[f]
              THEN LET e == [eff EXCEPT !.queue = Append(@, eff.gen)]
                       moved == snapshot'[f] # eff.prevSnapshot
                   IN  IF eff.turnOpen
                       THEN [e EXCEPT !.turnN = @ + 1,
                                      !.turnMoved = @ \/ moved]
                       ELSE [e EXCEPT !.turnKind = "emit", !.turnOpen = TRUE,
                                      !.turnN = 1, !.turnBase = eff.ncalls,
                                      !.turnTd = eff.teardowns,
                                      !.turnPrev = eff.prevSnapshot,
                                      !.turnGen = eff.gen,
                                      !.turnMoved = moved]
              ELSE eff
    /\ UNCHANGED listeners

\* the next queued microtask runs; synchronous code runs again when the
\* queue is empty
MicrotaskEff ==
    /\ eff.queue # <<>>
    /\ LET g == Head(eff.queue)
           snap == getSnapshot(eff.flow)
           e == IF ~cancelled(eff, g) /\ snapshotChanged(snap, eff.prevSnapshot)
                THEN callHandler([eff EXCEPT !.prevSnapshot = snap], snap, g)
                ELSE eff
           rest == Tail(eff.queue)
       IN  eff' = [e EXCEPT !.queue = rest,
                            !.phase = IF rest = <<>> THEN "sync" ELSE "drain",
                            !.turnOpen = IF rest = <<>> THEN FALSE ELSE @]
    /\ UNCHANGED <<snapshot, emits, listeners>>

\* what the useFlowEffect scenarios leave alone
IdleEff ==
    UNCHANGED <<env, previousStates, cur, wip, out, call, suspended,
               fs, hydrationQueue, flowHooks, pass, coord, attempt, hosts, mgr>>

EmitKinds == {"same", "new", "first"}

InitEff ==
    /\ env = "browser"
    /\ snapshot = [f \in Flows |-> Snap(InitialRef(f), PlainShape)]
    /\ emits = 0
    /\ listeners = [f \in Flows |-> {}]
    /\ previousStates = [f \in Flows |-> Nil]
    /\ cur = [c \in Consumers |-> NoHook]
    /\ wip = [c \in Consumers |-> FALSE]
    /\ out = [c \in Consumers |-> NoHook]
    /\ call = NoCalls
    /\ suspended = [c \in Consumers |-> FALSE]
    /\ fs = [c \in Consumers |-> Nil]
    /\ hydrationQueue = [c \in Consumers |-> Nil]
    /\ flowHooks = [f \in Flows |-> {}]
    /\ pass = NoPass /\ coord = NoCoord /\ attempt = NoAttempt
    /\ hosts = NoHosts /\ mgr = NoMgr
    /\ \E t \in BOOLEAN : eff = [NoEff EXCEPT !.returnsTeardown = t]

NextEff ==
    \/ \E flow \in Flows \cup {skipToken}, handler \in Handlers :
          MountEff(flow, handler) /\ IdleEff
    \/ \E flow \in Flows \cup {skipToken}, handler \in Handlers :
          ChangeFlowEff(flow, handler) /\ IdleEff
    \/ \E handler \in Handlers : RehandleEff(handler) /\ IdleEff
    \/ UnmountEff /\ IdleEff
    \/ \E f \in Flows, what \in EmitKinds : EmitEff(f, what) /\ IdleEff
    \/ MicrotaskEff /\ IdleEff

SpecEff == InitEff /\ [][NextEff]_vars


\* ------------------------------------- the server hydration manager
\* JavaScript truthiness of a value or of undefined
truthy(v) == v > 0

QueuedIds(queue) == {queue[i].id : i \in DOMAIN queue}
ValueOf(queue, id) == queue[CHOOSE i \in DOMAIN queue : queue[i].id = id].value
WithoutId(queue, id) == SelectSeq(queue, LAMBDA e : e.id # id)

\* Map.set(id, value): a new key goes last, an old key keeps its place
mapSet(queue, id, value) ==
    IF id \in QueuedIds(queue)
    THEN [i \in DOMAIN queue |->
            IF queue[i].id = id THEN [id |-> id, value |-> value] ELSE queue[i]]
    ELSE Append(queue, [id |-> id, value |-> value])

\* cache.get(value)?.delete(id) and cache.get(value).add(id) / cache.set
cacheDelete(cache, value, id) ==
    [cache EXCEPT ![value] = SelectSeq(@, LAMBDA x : x # id)]

cacheAdd(cache, value, id) ==
    IF \E i \in DOMAIN cache[value] : cache[value][i] = id THEN cache
    ELSE [cache EXCEPT ![value] = Append(@, id)]

\* register(id, flow, value)
register(g, id, flow, value) ==
    [g EXCEPT !.hydrationQueue = mapSet(@, id, value),
              !.flowHooks[flow] = @ \cup {id},
              !.op = "register", !.arg = flow, !.scanned = {},
              !.m = {}, !.d = <<>>, !.null = FALSE, !.core = FALSE]

\* (variant: the filter is ignored)
covers_all(filter, flow, id) == TRUE

\* if (filter && !filter.has(id)) continue
covers(filter, flow, id) == flow = NoFlow \/ id \in filter

\* (variant: the queue is kept)
clearedQueue_kept(flow, hq) == hq

\* hydrationQueue.clear() of a call without a flow
clearedQueue(flow, hq) == IF flow = NoFlow THEN <<>> ELSE hq

\* the for loop of getScript over the entries of hydrationQueue, from the
\* i-th on; st: hydrationQueue, queue (what _FS_.m will carry), cache,
\* sentValues, dedupe and the ids the loop did not skip
RECURSIVE scanQueue(_, _, _, _, _)
scanQueue(entries, i, filter, flow, st) ==
    IF i > Len(entries) THEN st
    ELSE LET id == entries[i].id
             value == entries[i].value
         IN  IF ~covers(filter, flow, id)
             THEN scanQueue(entries, i + 1, filter, flow, st)
             ELSE LET moved == IF flow # NoFlow
                               THEN [st EXCEPT !.queue = mapSet(@, id, value),
                                               !.hq = WithoutId(@, id)]
                               ELSE st
                      sentValue == st.sentValues[id]
                      cache1 == IF truthy(sentValue) /\ sentValue # value
                                THEN cacheDelete(st.cache, sentValue, id)
                                ELSE st.cache
                      cachedId == IF cache1[value] # <<>> THEN Head(cache1[value])
                                  ELSE Absent
                      st2 == IF truthy(cachedId)
                             THEN [moved EXCEPT
                                     !.dedupe = IF cachedId # id
                                                THEN Append(@, <<cachedId, id>>)
                                                ELSE @,
                                     !.queue = WithoutId(@, id)]
                             ELSE [moved EXCEPT !.sentValues[id] = value]
                  IN  scanQueue(entries, i + 1, filter, flow,
                                [st2 EXCEPT !.cache = cacheAdd(cache1, value, id),
                                            !.scanned = @ \cup {id}])

\* _FS_.d(pairs): for (var [f, t] of r) set(t, get(f))
RECURSIVE applyD(_, _, _)
applyD(client, pairs, i) ==
    IF i > Len(pairs) THEN client
    ELSE applyD([client EXCEPT ![pairs[i][2]] = client[pairs[i][1]]], pairs, i + 1)

\* the client runs the script: _FS_.m(queue), then _FS_.d(dedupe)
applyScript(client, queue, dedupe) ==
    applyD([id \in HookIds |->
              IF id \in QueuedIds(queue) THEN ValueOf(queue, id) ELSE client[id]],
           dedupe, 1)

\* (variant: every call, also one that returns null, marks the core as
\* emitted)
coreEmitted_eager(g, empty) == TRUE

\* coreHasBeenEmitted after a call: set when the script is not empty
coreEmitted(g, empty) == g.coreHasBeenEmitted \/ ~empty

\* getScript(flow), flow = NoFlow for a call without argument, and the
\* client running what it returned; core: the script starts with
\* getCoreScript(); returned: some call has returned a script so far
getScript(g, flow) ==
    LET nothing == [g EXCEPT !.op = "getScript", !.arg = flow, !.scanned = {},
                             !.m = {}, !.d = <<>>, !.null = TRUE,
                             !.core = FALSE,
                             !.coreHasBeenEmitted = coreEmitted(g, TRUE)]
        filter == IF flow = NoFlow THEN {} ELSE g.flowHooks[flow]
    IN  IF g.hydrationQueue = <<>> THEN nothing
        ELSE IF flow # NoFlow /\ filter = {} THEN nothing
        ELSE LET st == scanQueue(g.hydrationQueue, 1, filter, flow,
                                 [hq |-> g.hydrationQueue,
                                  queue |-> IF flow # NoFlow THEN <<>>
                                            ELSE g.hydrationQueue,
                                  cache |-> g.cache,
                                  sentValues |-> g.sentValues,
                                  dedupe |-> <<>>, scanned |-> {}])
                 empty == st.queue = <<>> /\ st.dedupe = <<>>
             IN  [hydrationQueue |-> clearedQueue(flow, st.hq),
                  flowHooks |-> IF flow # NoFlow
                                THEN [g.flowHooks EXCEPT ![flow] = {}]
                                ELSE [f \in Flows |-> {}],
                  cache |-> st.cache,
                  sentValues |-> st.sentValues,
                  coreHasBeenEmitted |-> coreEmitted(g, empty),
                  core |-> ~empty /\ ~g.coreHasBeenEmitted,
                  returned |-> g.returned \/ ~empty,
                  client |-> applyScript(g.client, st.queue, st.dedupe),
                  covered |-> [id \in HookIds |->
                                 IF id \in st.scanned
                                 THEN ValueOf(g.hydrationQueue, id)
                                 ELSE g.covered[id]],
                  serialized |-> [id \in HookIds |->
                                    IF id \in QueuedIds(st.queue)
                                    THEN ValueOf(st.queue, id)
                                    ELSE g.serialized[id]],
                  op |-> "getScript", arg |-> flow, scanned |-> st.scanned,
                  m |-> QueuedIds(st.queue), d |-> st.dedupe, null |-> empty,
                  rside |-> g.rside, rid |-> g.rid, rprov |-> g.rprov,
                  ret |-> g.ret, recalled |-> g.recalled,
                  nread |-> g.nread, nreg |-> g.nreg,
                  nrecall |-> [id \in HookIds |->
                                 IF id \in QueuedIds(st.queue)
                                      \/ \E i \in DOMAIN st.dedupe :
                                            st.dedupe[i][2] = id
                                 THEN 0 ELSE g.nrecall[id]]]

\* the hook with id `id` reads flow FlowOf(id) in a server render
Register(id, flow, value) ==
    mgr' = register(mgr, id, flow, value)

GetScript(flow) ==
    mgr' = getScript(mgr, flow)

\* ------------------ a useFlowEffect and a useFlow host on one source
\* the component with the effect and host 2, both given flow 1; every
\* emission is the object the flow holds or a new one
OrdFlow == 1
OrdHost == 2

EmitOrd(what) ==
    /\ EmitEff(OrdFlow, what)
    /\ hosts' = [hosts EXCEPT ![OrdHost] =
                   IF OrdHost \in listeners[OrdFlow]
                   THEN [@ EXCEPT !.notified = TRUE,
                                  !.dirty = @ \/ storeChanged(hosts[OrdHost].value,
                                                              snapshot'[OrdFlow])]
                   ELSE @]

IdleOrd ==
    UNCHANGED <<env, previousStates, cur, wip, out, call, suspended,
               fs, hydrationQueue, flowHooks, pass, coord, attempt, mgr>>

NextOrd ==
    \/ \E handler \in Handlers :
          MountEff(OrdFlow, handler) /\ IdleOrd /\ UNCHANGED hosts
    \/ UnmountEff /\ IdleOrd /\ UNCHANGED hosts
    \/ \E what \in {"same", "new"} : EmitOrd(what) /\ IdleOrd
    \/ MicrotaskEff /\ IdleOrd /\ UNCHANGED hosts
    \/ RenderUse(OrdHost, OrdFlow, FALSE, FALSE) /\ IdleOrd /\ UNCHANGED eff
    \/ CommitUse(OrdHost) /\ IdleOrd /\ UNCHANGED eff
    \/ UnmountUse(OrdHost) /\ IdleOrd /\ UNCHANGED eff

SpecOrd == InitEff /\ [][NextOrd]_vars

\* ---------------------- useFlow's getServerSnapshot and the managers
MaxReads == 2

\* what hydrate returns: { value }, or undefined
NoRecord == [has |-> FALSE, value |-> Absent]

\* (variant: the client answers only for a truthy value)
hydrateClient_truthy(g, id) ==
    IF truthy(g.client[id]) THEN [has |-> TRUE, value |-> g.client[id]]
    ELSE NoRecord

\* client manager: hydrate(id) answers when window._FS_ has the id
hydrateClient(g, id) ==
    IF g.client[id] # Absent THEN [has |-> TRUE, value |-> g.client[id]]
    ELSE NoRecord

\* (variant: the server answers from its queue)
hydrateServer_queued(g, id) ==
    IF id \in QueuedIds(g.hydrationQueue)
    THEN [has |-> TRUE, value |-> ValueOf(g.hydrationQueue, id)]
    ELSE NoRecord

\* server manager: hydrate() always returns undefined
hydrateServer(g, id) == NoRecord

\* the getServerSnapshot callback of useFlow for hook `id` on `flow`, run
\* on `side`, with or without a FlowHydrationProvider in scope
getServerSnapshotOf(g, side, id, flow, provider) ==
    LET value == snapshot[flow]
        serverValue == IF side = "server" THEN hydrateServer(g, id)
                       ELSE hydrateClient(g, id)
        read(h, ret, recalled) ==
            [h EXCEPT !.rside = side, !.rid = id, !.rprov = provider,
                      !.ret = ret, !.recalled = recalled,
                      !.nread[id] = IF side = "server" /\ provider
                                    THEN @ + 1 ELSE @,
                      !.nrecall[id] = IF recalled THEN @ + 1 ELSE @]
        idle == [g EXCEPT !.op = "read", !.arg = flow, !.scanned = {},
                          !.m = {}, !.d = <<>>, !.null = FALSE,
                          !.core = FALSE]
    IN  IF ~provider THEN read(idle, value, FALSE)
        ELSE IF serverValue.has THEN read(idle, serverValue.value, TRUE)
        ELSE IF side = "server"
        THEN read([register(g, id, flow, value) EXCEPT !.nreg[id] = @ + 1],
                  value, FALSE)
        ELSE read(idle, value, FALSE)

\* flow.emit(value) with a plain value
EmitReg(f, value) ==
    /\ value # snapshot[f]
    /\ snapshot' = [snapshot EXCEPT ![f] = value]
    /\ UNCHANGED mgr

\* a server render (or the retry of a suspended one) calls useFlow
ServerRead(id, provider) ==
    /\ mgr.nread[id] < MaxReads
    /\ mgr' = getServerSnapshotOf(mgr, "server", id, FlowOf(id), provider)
    /\ UNCHANGED snapshot

\* the server flushes: getScript(), and the client runs the script
FlushReg ==
    /\ mgr' = getScript(mgr, NoFlow)
    /\ UNCHANGED snapshot

\* a hydrating render of the client calls useFlow
ClientRead(id, provider) ==
    /\ mgr.nrecall[id] < MaxReads
    /\ mgr' = getServerSnapshotOf(mgr, "browser", id, FlowOf(id), provider)
    /\ UNCHANGED snapshot

IdleReg ==
    UNCHANGED <<env, emits, listeners, previousStates, cur, wip, out,
               call, suspended, fs, hydrationQueue, flowHooks, pass, coord,
               attempt, hosts, eff>>

InitReg ==
    /\ env = "server"
    /\ \E v \in Values : snapshot = [f \in Flows |-> v]
    /\ emits = 0
    /\ listeners = [f \in Flows |-> {}]
    /\ previousStates = [f \in Flows |-> Nil]
    /\ cur = [c \in Consumers |-> NoHook]
    /\ wip = [c \in Consumers |-> FALSE]
    /\ out = [c \in Consumers |-> NoHook]
    /\ call = NoCalls
    /\ suspended = [c \in Consumers |-> FALSE]
    /\ fs = [c \in Consumers |-> Nil]
    /\ hydrationQueue = [c \in Consumers |-> Nil]
    /\ flowHooks = [f \in Flows |-> {}]
    /\ pass = NoPass /\ coord = NoCoord /\ attempt = NoAttempt
    /\ hosts = NoHosts /\ eff = NoEff /\ mgr = NoMgr

NextReg ==
    \/ \E f \in MainFlows, value \in Values : EmitReg(f, value) /\ IdleReg
    \/ \E id \in HookIds, provider \in BOOLEAN :
          ServerRead(id, provider) /\ IdleReg
    \/ FlushReg /\ IdleReg
    \/ \E id \in HookIds, provider \in BOOLEAN :
          ClientRead(id, provider) /\ IdleReg

SpecReg == InitReg /\ [][NextReg]_vars

\* what the manager scenarios leave alone
IdleHyd ==
    UNCHANGED <<env, snapshot, emits, listeners, previousStates, cur, wip, out,
               call, suspended, fs, hydrationQueue, flowHooks, pass, coord,
               attempt, hosts, eff>>

InitHyd ==
    /\ env = "server"
    /\ snapshot = [f \in Flows |-> Snap(InitialRef(f), PlainShape)]
    /\ emits = 0
    /\ listeners = [f \in Flows |-> {}]
    /\ previousStates = [f \in Flows |-> Nil]
    /\ cur = [c \in Consumers |-> NoHook]
    /\ wip = [c \in Consumers |-> FALSE]
    /\ out = [c \in Consumers |-> NoHook]
    /\ call = NoCalls
    /\ suspended = [c \in Consumers |-> FALSE]
    /\ fs = [c \in Consumers |-> Nil]
    /\ hydrationQueue = [c \in Consumers |-> Nil]
    /\ flowHooks = [f \in Flows |-> {}]
    /\ pass = NoPass /\ coord = NoCoord /\ attempt = NoAttempt
    /\ hosts = NoHosts /\ eff = NoEff /\ mgr = NoMgr

NextHyd ==
    \/ \E id \in HookIds, value \in Values :
          Register(id, FlowOf(id), value) /\ IdleHyd
    \/ \E flow \in Flows \cup {NoFlow} : GetScript(flow) /\ IdleHyd

SpecHyd == InitHyd /\ [][NextHyd]_vars

InitPar ==
    /\ InitFor(Flows)
    /\ env = "browser"
    /\ pass = NoPass
    /\ coord = NoCoord /\ attempt = NoAttempt
    /\ hosts = NoHosts /\ eff = NoEff /\ mgr = NoMgr

NextPar ==
    \/ \E f \in Flows, shape \in Shapes :
          pass.pc = 0 /\ Emit(f, shape)
            /\ UNCHANGED <<pass, coord, attempt, hosts, eff, mgr>>
    \/ \E style \in Styles :
          PassBegin(style) /\ UNCHANGED <<coord, attempt, hosts, eff, mgr>>
    \/ \E c \in Consumers :
          PassHook(c) /\ UNCHANGED <<coord, attempt, hosts, eff, mgr>>
    \/ \E c \in Consumers :
          PassCall(c) /\ UNCHANGED <<coord, attempt, hosts, eff, mgr>>
    \/ PassCommit /\ UNCHANGED <<coord, attempt, hosts, eff, mgr>>

SpecPar == InitPar /\ [][NextPar]_vars

InitFlows ==
    /\ InitFor(Flows)
    /\ env = "browser"
    /\ pass = NoPass /\ coord = NoCoord
    /\ \E eb \in BOOLEAN : attempt = [NoAttempt EXCEPT !.eb = eb]
    /\ hosts = NoHosts /\ eff = NoEff /\ mgr = NoMgr

NextFlows ==
    \/ \E f \in Flows, shape \in Shapes :
          EmitFlows(f, shape) /\ UNCHANGED <<hosts, eff, mgr>>
    \/ \E list \in Lists : RerenderFlows(list) /\ UNCHANGED <<hosts, eff, mgr>>
    \/ RetryFlows /\ UNCHANGED <<hosts, eff, mgr>>
    \/ CommitFlows /\ UNCHANGED <<hosts, eff, mgr>>

SpecFlows == InitFlows /\ [][NextFlows]_vars

\* ----------------------------------------------- the main specification
Init ==
    /\ InitFor(MainFlows)
    /\ pass = NoPass /\ coord = NoCoord /\ attempt = NoAttempt
    /\ hosts = NoHosts /\ eff = NoEff /\ mgr = NoMgr

Next ==
    NextFor(MainConsumers, MainFlows)
      /\ UNCHANGED <<pass, coord, attempt, hosts, eff, mgr>>

Spec == Init /\ [][Next]_vars

\* ================================================================ claims
ReadBy(k) == IF k.hyd THEN k.frozen ELSE k.live
Pending0(snap) == snap.status = "pending" /\ snap.data = Undefined
IsSuccessState(p) == ~p.isLoading /\ ~p.isError /\ ~p.isFetching

\* C1: calling useAsyncFlow never throws, whatever the source and the phase:
\* the call returns a tuple of an accessor (null exactly for skipToken) and
\* a state; nothing is thrown by the hook body itself.
C1_ConsumeNeverThrows ==
    \A c \in Consumers :
        out[c].mounted =>
            /\ out[c].threw = "none"
            /\ out[c].tid # 0 /\ out[c].sid # 0
            /\ (out[c].rid = 0) = (out[c].flow = skipToken)

C1_Witness ==
    \E c \in Consumers :
        /\ out[c].mounted /\ env = "browser" /\ out[c].isSsr
        /\ Pending0(out[c].state) /\ out[c].threw = "none"

\* C2: a consumer whose committed render is a Success and that now renders
\* a pending snapshot without own data of the same source gets Updating, and
\* the accessor of that render (invoked while the source is still at that
\* pending snapshot) returns the Success's data instead of throwing.
C2_SuccessThenPending ==
    \A c \in Consumers :
        (/\ out[c].mounted /\ cur[c].mounted
         /\ out[c].flow # skipToken /\ cur[c].flow = out[c].flow
         /\ cur[c].state.status = "success"
         /\ Pending0(out[c].state))
        => /\ out[c].res = updatingState
           /\ (call[c].kind # "none" /\ call[c].live = out[c].state)
                => (call[c].kind = "return" /\ call[c].value = cur[c].state.data)

C2_Witness ==
    \E c \in Consumers :
        /\ out[c].mounted /\ cur[c].mounted /\ cur[c].flow = out[c].flow
        /\ cur[c].state.status = "success" /\ Pending0(out[c].state)
        /\ out[c].res = updatingState
        /\ call[c].kind = "return" /\ call[c].value = cur[c].state.data

\* C3: in the browser outside hydration, when no snapshot of the source has
\* been observed (committed) before and the snapshot rendered is pending
\* without data, the state is Loading and the accessor throws the source's
\* promise; when the suspended render is retried on a success snapshot, the
\* state is Success and the accessor returns the new data.
C3_FirstPendingThenSuccess ==
    \A c \in Consumers :
        /\ (/\ out[c].mounted /\ env = "browser" /\ ~out[c].isSsr
            /\ out[c].flow # skipToken /\ previousStates[out[c].flow] = Nil
            /\ Pending0(out[c].state))
           => /\ out[c].res = loadingState
              /\ (call[c].kind # "none" /\ call[c].live = out[c].state)
                   => (call[c].kind = "promise" /\ call[c].value = out[c].flow)
        /\ (/\ call[c].kind # "none" /\ call[c].inRender /\ call[c].retry
            /\ out[c].state.status = "success")
           => /\ out[c].res = successState(out[c].state)
              /\ call[c].kind = "return" /\ call[c].value = out[c].state.data

C3_Witness ==
    \E c \in Consumers :
        /\ call[c].retry /\ call[c].inRender /\ call[c].kind = "return"
        /\ env = "browser" /\ ~out[c].isSsr
        /\ previousStates[out[c].flow] = Nil
        /\ out[c].res = successState(out[c].state)
        /\ call[c].value = out[c].state.data

\* C4 (as claimed): the accessor returned together with a Success state
\* returns that state's currentData at whatever moment it is invoked.
C4_Original ==
    \A c \in Consumers :
        (call[c].kind # "none" /\ IsSuccessState(call[c].res))
        => (call[c].kind = "return" /\ call[c].value = call[c].res.currentData)

\* C4 (amended): the accessor returned together with a Success state
\* returns that state's currentData when it was returned by a hydrating
\* render, or when the source has not emitted since the render.
C4_SuccessAccessor ==
    \A c \in Consumers :
        (/\ call[c].kind # "none" /\ IsSuccessState(call[c].res)
         /\ (call[c].hyd \/ call[c].live = call[c].frozen))
        => (call[c].kind = "return" /\ call[c].value = call[c].res.currentData)

C4_Witness ==
    \E c \in Consumers :
        /\ call[c].kind = "return" /\ ~call[c].inRender
        /\ IsSuccessState(call[c].res) /\ call[c].hyd
        /\ call[c].live # call[c].frozen
        /\ call[c].value = call[c].res.currentData

\* C5 (as claimed): the accessor throws the error value exactly when the
\* snapshot it reads is an error without own data and no prior Success is
\* retained; in every other settled case it returns data.
C5_Original ==
    \A c \in Consumers :
        call[c].kind # "none" =>
            LET rs == ReadBy(call[c])
                retained == call[c].prev.status = "success"
                throws == rs.status = "error" /\ rs.data = Undefined /\ ~retained
            IN  /\ (call[c].kind = "error") = throws
                /\ (rs.status \in {"success", "error"} /\ ~throws)
                     => call[c].kind = "return"

\* C5 (amended): the accessor throws the error value itself exactly when the
\* snapshot it reads is an error without own data, whether or not a prior
\* Success is retained; on a success snapshot and on an error snapshot with
\* own data it returns that snapshot's data.
C5_ErrorThrown ==
    \A c \in Consumers :
        call[c].kind # "none" =>
            LET rs == ReadBy(call[c])
                throws == rs.status = "error" /\ rs.data = Undefined
            IN  /\ (call[c].kind = "error") = throws
                /\ throws => call[c].value = rs.error
                /\ (rs.status \in {"success", "error"} /\ ~throws)
                     => (call[c].kind = "return" /\ call[c].value = rs.data)

C5_Witness ==
    \E c \in Consumers :
        /\ call[c].kind = "error" /\ call[c].prev.status = "success"
        /\ call[c].value = ReadBy(call[c]).error

\* C6 (as claimed): currentData is populated only in the Success state; an
\* Error state has currentData undefined.
C6_Original ==
    \A c \in Consumers :
        out[c].mounted =>
            /\ out[c].res.currentData # Undefined => IsSuccessState(out[c].res)
            /\ out[c].res.isError => out[c].res.currentData = Undefined

\* C6 (amended): currentData is populated only in the Success state and in
\* the Error state of an error snapshot that carries own data, and it is that
\* snapshot's data; Loading, Updating and Skipped have currentData undefined.
C6_CurrentData ==
    \A c \in Consumers :
        out[c].mounted =>
            /\ out[c].res.currentData # Undefined
                 => /\ IsSuccessState(out[c].res) \/ out[c].res.isError
                    /\ out[c].res.currentData = out[c].state.data
            /\ out[c].res.isError => out[c].res.currentData = out[c].state.data
            /\ out[c].state.status = "success"
                 => out[c].res.currentData = out[c].state.data

C6_Witness ==
    \E c \in Consumers :
        /\ out[c].mounted /\ out[c].res.isError
        /\ out[c].res.currentData # Undefined

\* C7: when the snapshot the accessor reads is pending without own data and
\* no prior Success is retained, an accessor of the hydrating pass throws
\* the fatal Error and never a promise, and an accessor on the server or of
\* a later client render throws the source's promise.
C7_PendingInHydration ==
    \A c \in Consumers :
        (/\ call[c].kind # "none" /\ Pending0(ReadBy(call[c]))
         /\ call[c].prev.status # "success")
        => IF call[c].hyd
           THEN call[c].kind = "fatal"
           ELSE call[c].kind = "promise" /\ call[c].value = call[c].flow

C7_Witness ==
    \E c \in Consumers :
        /\ call[c].kind = "fatal" /\ call[c].hyd /\ env = "browser"
        /\ Pending0(call[c].frozen)

\* C8 (as claimed): a re-render of a consumer with the same source and the
\* same snapshot as its committed render returns the identical tuple,
\* accessor and state object.
C8_Original ==
    [][\A c \in Consumers :
        (/\ out[c].mounted /\ out[c].committed
         /\ out'[c].mounted /\ ~out'[c].committed
         /\ out'[c].flow = out[c].flow /\ out'[c].state = out[c].state)
        => (/\ out'[c].tid = out[c].tid /\ out'[c].rid = out[c].rid
            /\ out'[c].sid = out[c].sid)]_vars

\* C8 (amended): a re-render of a consumer with the same source, the same
\* snapshot and the same SSR-phase flag as its committed render returns the
\* identical tuple, accessor and state object.
C8_StableTuple ==
    [][\A c \in Consumers :
        (/\ out[c].mounted /\ out[c].committed
         /\ out'[c].mounted /\ ~out'[c].committed
         /\ out'[c].flow = out[c].flow /\ out'[c].state = out[c].state
         /\ out'[c].isSsr = out[c].isSsr)
        => (/\ out'[c].tid = out[c].tid /\ out'[c].rid = out[c].rid
            /\ out'[c].sid = out[c].sid /\ out'[c].res = out[c].res)]_vars

C8_Witness ==
    \E c \in Consumers :
        /\ out[c].mounted /\ ~out[c].committed /\ cur[c].mounted
        /\ out[c].flow # skipToken
        /\ out[c].tid = cur[c].tid /\ out[c].rid = cur[c].rid
        /\ out[c].sid = cur[c].sid

\* C9: skipToken yields the null accessor and the Skipped state; a consumer
\* holds a listener on a flow exactly while its committed source is that
\* flow, so switching to skipToken leaves no listener; a render that
\* switches back from skipToken classifies the flow's current snapshot.
C9_SkipRestore ==
    [][\A c \in Consumers :
        /\ (out'[c].mounted /\ out'[c].flow = skipToken)
             => (out'[c].rid = 0 /\ out'[c].res = skippedState)
        /\ \A f \in Flows :
             (c \in listeners'[f]) = (cur'[c].mounted /\ cur'[c].flow = f)
        /\ (/\ cur[c].mounted /\ cur[c].flow = skipToken
            /\ out'[c] # out[c] /\ out'[c].mounted /\ ~out'[c].committed
            /\ out'[c].flow # skipToken)
             => /\ out'[c].state = snapshot[out'[c].flow]
                /\ out'[c].res = result(snapshot[out'[c].flow], out'[c].flow,
                                        previousStates[out'[c].flow], FALSE)]_vars

C9_Witness ==
    \E c \in Consumers : \E f \in Flows :
        /\ cur[c].mounted /\ cur[c].flow = skipToken /\ out[c].committed
        /\ previousStates[f] # Nil /\ listeners[f] = {}
        /\ out[c].rid = 0 /\ out[c].res = skippedState

\* C10: an accessor that is not of the hydrating pass works on the flow's
\* snapshot at the moment of the invocation (a success there is returned
\* even if the render saw another snapshot); an accessor of the hydrating
\* pass works on the snapshot its render got from the subscription.
C10_LiveRead ==
    \A c \in Consumers :
        call[c].kind # "none" =>
            /\ (~call[c].hyd /\ call[c].live.status = "success")
                 => (call[c].kind = "return" /\ call[c].value = call[c].live.data)
            /\ (call[c].hyd /\ call[c].frozen.status = "success")
                 => (call[c].kind = "return" /\ call[c].value = call[c].frozen.data)
            /\ (~call[c].hyd /\ call[c].live.status = "error"
                    /\ call[c].live.data = Undefined)
                 => (call[c].kind = "error" /\ call[c].value = call[c].live.error)

C10_Witness ==
    \E c \in Consumers :
        /\ call[c].kind = "return" /\ ~call[c].hyd /\ ~call[c].inRender
        /\ call[c].live # call[c].frozen /\ call[c].live.status = "success"
        /\ call[c].frozen.status = "success"
        /\ call[c].value = call[c].live.data

\* C11: in a pass of a component that calls useAsyncFlow for both of its
\* sources before it invokes an accessor, the snapshot of every source has
\* been read when a suspension promise is thrown.
C11_ParallelLoading ==
    (pass.style = "parallel" /\ pass.thrown = "promise")
    => /\ Reads = {FlowOf(c) : c \in Consumers}
       /\ \A c \in Consumers : out[c].mounted /\ out[c].flow = FlowOf(c)

C11_Witness ==
    /\ pass.style = "parallel" /\ pass.thrown = "promise" /\ pass.by = 1
    /\ \A f \in Flows : Pending0(snapshot[f]) /\ previousStates[f] = Nil
    /\ Reads = Flows

\* C12: in a pass of a component that invokes the accessor of its first
\* source before it calls useAsyncFlow for the second, a first source that
\* is pending without data and without prior Success makes the pass suspend
\* on the first source's promise (not an error), and the second source's
\* snapshot has not been read in that pass.
C12_Waterfall ==
    (/\ pass.style = "waterfall"
     /\ call[1].kind # "none" /\ call[1].inRender
     /\ Pending0(call[1].live) /\ call[1].prev.status # "success")
    => /\ pass.pc = 0 /\ pass.thrown = "promise" /\ pass.by = 1
       /\ pass.value = FlowOf(1)
       /\ FlowOf(2) \notin Reads

C12_Witness ==
    /\ pass.style = "waterfall" /\ pass.thrown = "promise" /\ pass.by = 1
    /\ call[1].kind = "promise"
    /\ \A f \in Flows : Pending0(snapshot[f])
    /\ Reads = {FlowOf(1)}

\* the step is a call of useAsyncFlows (not an emission, not a commit)
CallStepFlows ==
    /\ attempt' # attempt /\ attempt'.made
    /\ snapshot' = snapshot /\ ~(coord'.mounted /\ coord' # coord)

Suspended(a) == a.thrown \in {"all", "promise"}

PendingEntries(list) ==
    {list[i] : i \in {j \in DOMAIN list :
                        list[j] # skipToken /\ Pending0(snapshot[list[j]])}}

\* C13 (as claimed): on the first mount pass the promise of every entry
\* that is pending without data is collected, whatever its position and
\* whatever the other entries are, and a single combined promise is thrown
\* when at least one was collected.
C13_Original ==
    [][(CallStepFlows /\ ~coord.mounted)
       => /\ attempt'.collected = PendingEntries(attempt'.list)
          /\ (attempt'.collected # {}) = (attempt'.thrown = "all")]_vars

\* C14: a component suspended on the combined promise is retried by React,
\* while no collected source has failed, only after every collected source
\* has resolved; when at that retry every collected source still holds its
\* success snapshot and no entry is pending without data, the call is not
\* suspended, and what it returns is a Success state with the resolved data
\* for each collected source.
C14_WaitAll ==
    [][(/\ CallStepFlows /\ attempt'.cause = "retry" /\ attempt.thrown = "all"
        /\ \A f \in Flows : attempt.promises[f] # "failed")
       => /\ \A f \in attempt.collected : attempt.promises[f] = "resolved"
          /\ (/\ \A f \in attempt.collected : snapshot[f].status = "success"
              /\ PendingEntries(attempt.list) = {})
             => /\ ~Suspended(attempt')
                /\ attempt'.wip =>
                     \A i \in DOMAIN attempt'.slots :
                        attempt'.list[i] \in attempt.collected
                        => attempt'.slots[i].res
                             = successStateOpt(snapshot[attempt'.list[i]])]_vars

C14_Witness ==
    /\ attempt.cause = "retry" /\ attempt.prevThrown = "all" /\ attempt.wip
    /\ \A f \in Flows : attempt.woke[f] = "resolved"
    /\ Len(attempt.slots) = 2
    /\ \A i \in DOMAIN attempt.slots :
         attempt.slots[i].res = successStateOpt(attempt.slots[i].state)

\* C15: once a mount with N entries is committed, every later call with a
\* number of entries different from N throws the arity error, also when the
\* call before it, with N entries, was suspended.
C15_ArityViolation ==
    [][(/\ CallStepFlows /\ coord.mounted
        /\ Len(attempt'.list) # Len(coord.slots))
       => attempt'.thrown = "arity"]_vars

C15_Witness ==
    /\ attempt.thrown = "arity" /\ attempt.wasMounted
    /\ attempt.prevThrown = "promise"
    /\ attempt.prevLen = attempt.lengthRef
    /\ Len(attempt.list) # attempt.lengthRef

\* C16 (as claimed): a call with N+1 or N-1 entries does not throw the arity
\* error when the call before it was suspended with N entries.
C16_Original ==
    [][(/\ CallStepFlows /\ Suspended(attempt)
        /\ Len(attempt'.list) - Len(attempt.list) \in {1, 0 - 1})
       => attempt'.thrown # "arity"]_vars

\* C16 (amended): while no call of the component has been committed yet, a
\* call with N+1 or N-1 entries does not throw the arity error when the call
\* before it was suspended with N entries; when all its entries hold success
\* snapshots it returns a Success state for each of them.
C16_ArityExemption ==
    [][(/\ CallStepFlows /\ Suspended(attempt) /\ ~coord.mounted
        /\ Len(attempt'.list) - Len(attempt.list) \in {1, 0 - 1})
       => /\ attempt'.thrown # "arity"
          /\ (\A i \in DOMAIN attempt'.list :
                 /\ attempt'.list[i] # skipToken
                 /\ snapshot[attempt'.list[i]].status = "success")
             => /\ attempt'.wip /\ Len(attempt'.slots) = Len(attempt'.list)
                /\ \A i \in DOMAIN attempt'.slots :
                     attempt'.slots[i].res
                       = successStateOpt(snapshot[attempt'.list[i]])]_vars

C16_Witness ==
    /\ attempt.wip /\ ~attempt.wasMounted /\ attempt.cause = "props"
    /\ Suspended([thrown |-> attempt.prevThrown])
    /\ attempt.prevLen = 1 /\ Len(attempt.list) = 2
    /\ \A i \in DOMAIN attempt.slots :
         attempt.slots[i].res = successStateOpt(attempt.slots[i].state)

\* the step is a call of the component function of host c
RenderStepUse(c) ==
    hosts'[c].wip /\ hosts'[c] # hosts[c] /\ snapshot' = snapshot /\ emits' = emits

\* the step is an emission
EmitStepUse == emits' # emits

\* C17: a client render of useFlow returns the source's current snapshot,
\* null for skipToken; an emission schedules a re-render of a subscribed
\* component that has none pending exactly when the emitted value differs by
\* reference from the snapshot the component last rendered, so re-emitting
\* that same object schedules none, and without an emission a component
\* that rendered the current snapshot has no re-render scheduled.
C17_RerenderOnChange ==
    [][\A c \in Consumers :
        /\ (RenderStepUse(c) /\ ~hosts'[c].whyd)
           => hosts'[c].wvalue = IF hosts'[c].wflow = skipToken THEN Nil
                                 ELSE snapshot[hosts'[c].wflow]
        /\ (EmitStepUse /\ hosts[c].mounted /\ hosts[c].flow # skipToken
              /\ ~hosts[c].dirty)
           => (hosts'[c].dirty <=> snapshot'[hosts[c].flow] # hosts[c].value)
        /\ (/\ hosts'[c].mounted /\ hosts'[c].flow # skipToken
            /\ ~hosts'[c].notified
            /\ hosts'[c].value = snapshot'[hosts'[c].flow])
           => ~hosts'[c].dirty]_vars

C17_Witness ==
    /\ hosts[1].mounted /\ hosts[1].flow = 2 /\ hosts[1].notified
    /\ ~hosts[1].dirty /\ hosts[1].value = snapshot[2]
    /\ hosts[2].mounted /\ hosts[2].flow = 1 /\ hosts[2].notified
    /\ hosts[2].dirty /\ hosts[2].value # snapshot[1]

\* C18: whatever mounts, source switches (flow to flow, flow to skipToken,
\* skipToken to flow) and unmounts happened, a useFlow consumer is a listener
\* of a flow exactly when it is mounted and that flow is its current source:
\* none on any other flow, none after unmount, none for skipToken.
C18_SubscriptionLifetime ==
    \A c \in Consumers : \A f \in Flows :
        c \in listeners[f] <=> (hosts[c].mounted /\ hosts[c].flow = f)

C18_Witness ==
    /\ hosts[1].mounted /\ hosts[1].flow = 2 /\ hosts[1].prevFlow = 1
    /\ listeners[2] = {1}
    /\ ~hosts[2].mounted /\ listeners[1] = {} /\ emits > 0

\* C19: with value V in window._FS_ under the component's id, the hydrating
\* render of useFlow under a FlowHydrationProvider returns V even if the live
\* source holds another value W; once that render is committed a re-render
\* is scheduled exactly when W differs from V, and the client render that
\* follows returns W.
C19_HydrationParity ==
    [][\A c \in Consumers :
        /\ (/\ RenderStepUse(c) /\ hosts'[c].whyd /\ hosts'[c].wprov
            /\ hosts'[c].wflow # skipToken /\ fs[c] # Nil)
           => hosts'[c].wvalue = fs[c]
        /\ (/\ hosts'[c].mounted /\ hosts'[c].hyd /\ hosts'[c].flow # skipToken
            /\ snapshot'[hosts'[c].flow] # hosts'[c].value)
           => hosts'[c].dirty
        /\ (/\ RenderStepUse(c) /\ hosts[c].mounted /\ hosts[c].hyd
            /\ hosts'[c].wflow # skipToken)
           => hosts'[c].wvalue = snapshot[hosts'[c].wflow]]_vars

C19_Witness ==
    /\ hosts[1].mounted /\ hosts[1].hyd /\ hosts[1].flow = 1
    /\ fs[1] # Nil /\ hosts[1].value = fs[1] /\ hosts[1].value # snapshot[1]
    /\ hosts[1].dirty
    /\ hosts[1].wip /\ ~hosts[1].whyd /\ hosts[1].wflow = 1
    /\ hosts[1].wvalue = snapshot[1]

\* a synchronous turn with emissions of the effect's flow is over, its
\* microtasks have run, and the effect is still the one that saw it
TurnDone ==
    /\ eff.turnKind = "emit" /\ ~eff.turnOpen
    /\ eff.mounted /\ eff.turnGen = eff.gen

MountDone ==
    /\ eff.turnKind = "mount" /\ eff.mounted /\ eff.turnGen = eff.gen

\* C20 (as claimed): any number of synchronous emissions within one
\* microtask turn produce exactly one further handler invocation, with the
\* final emitted value.
C20_Original ==
    TurnDone => /\ eff.ncalls = eff.turnBase + 1
                /\ eff.lastValue = snapshot[eff.flow]

\* C20 (amended): the handler is invoked exactly once on mount, with the
\* current snapshot; the synchronous emissions of one turn produce exactly
\* one further invocation, with the final emitted value and after the
\* teardown of the invocation before, when that value differs by reference
\* from the one the handler last received, and none otherwise.
C20_Coalescing ==
    /\ MountDone =>
         IF eff.flow = skipToken THEN eff.ncalls = eff.turnBase
         ELSE /\ eff.ncalls = eff.turnBase + 1
              /\ eff.lastValue = eff.prevSnapshot
              /\ eff.teardowns = eff.turnTd
    /\ TurnDone =>
         IF snapshot[eff.flow] # eff.turnPrev
         THEN /\ eff.ncalls = eff.turnBase + 1
              /\ eff.lastValue = snapshot[eff.flow]
              /\ eff.teardowns
                   = eff.turnTd + (IF eff.returnsTeardown THEN 1 ELSE 0)
         ELSE /\ eff.ncalls = eff.turnBase
              /\ eff.teardowns = eff.turnTd

C20_Witness ==
    /\ TurnDone /\ eff.turnN >= 2
    /\ eff.ncalls = eff.turnBase + 1
    /\ eff.lastValue = snapshot[eff.flow]
    /\ eff.returnsTeardown /\ eff.teardowns = eff.turnTd + 1

\* C21: the handler is invoked only by the closure of the effect that is
\* running, for the flow the component is given now and with that flow's
\* current snapshot: never after the unmount, and never by the closure of
\* an earlier flow, even when that closure's microtask was queued before
\* the unmount or the switch and runs after it.
C21_NoHandlerAfterUnmount ==
    [][eff'.ncalls > eff.ncalls
       => /\ eff'.mounted
          /\ eff'.lastBy = eff'.gen
          /\ eff'.flow # skipToken
          /\ eff'.lastValue = snapshot'[eff'.flow]]_vars

C21_Witness ==
    /\ ~eff.mounted /\ emits = 1
    /\ eff.turnKind = "emit" /\ ~eff.turnOpen /\ eff.queue = <<>>
    /\ eff.turnGen = eff.gen
    /\ snapshot[eff.flow] # eff.prevSnapshot
    /\ eff.ncalls = eff.turnBase

\* C22: the teardowns returned by the handler's invocations are called in
\* the order of the invocations, each exactly once: the one of the latest
\* invocation is outstanding for as long as the component stays mounted on
\* the flow without a new invocation (so an emission of the identical object
\* calls nothing), all the others, and after the unmount all of them, have
\* been called; a handler that returns nothing has nothing called.
C22_TeardownProtocol ==
    /\ eff.armed => eff.mounted /\ eff.flow # skipToken
    /\ (eff.mounted /\ eff.flow # skipToken) => eff.armed = eff.returnsTeardown
    /\ eff.torn = IF eff.returnsTeardown
                  THEN [i \in 1..(eff.ncalls - (IF eff.armed THEN 1 ELSE 0)) |-> i]
                  ELSE <<>>

C22_Witness ==
    /\ TurnDone /\ snapshot[eff.flow] = eff.turnPrev
    /\ eff.returnsTeardown /\ eff.armed
    /\ eff.ncalls = 2 /\ eff.torn = <<1>> /\ eff.gen = 1

\* C23: whenever the handler is invoked it is the function the last
\* committed render supplied; committing a render that supplies another
\* function for the same flow runs neither the cleanup nor the effect (no
\* unsubscribe, no subscribe, no handler invocation, no teardown), and the
\* component is the flow's only listener all along.
C23_LatestHandler ==
    [][/\ eff'.ncalls > eff.ncalls => eff'.lastHandler = eff'.supplied
       /\ (/\ eff.mounted /\ eff'.mounted /\ eff'.flow = eff.flow
           /\ eff'.supplied # eff.supplied)
          => /\ eff'.gen = eff.gen /\ eff'.nsubs = eff.nsubs
             /\ listeners' = listeners
             /\ eff'.ncalls = eff.ncalls /\ eff'.torn = eff.torn
       /\ (eff'.mounted /\ eff'.flow # skipToken)
          => /\ listeners'[eff'.flow] = {EffId}
             /\ \A f \in Flows \ {eff'.flow} : listeners'[f] = {}]_vars

C23_Witness ==
    /\ eff.mounted /\ eff.gen = 1 /\ eff.nsubs = 1
    /\ eff.supplied = 2 /\ eff.lastHandler = 1 /\ eff.ncalls = 1
    /\ eff.queue # <<>> /\ listeners[eff.flow] = {EffId}

\* the step is a call of getScript
GetScriptStep == mgr' # mgr /\ mgr'.op = "getScript"

EmittedIds(g) == g.m \cup {g.d[i][2] : i \in DOMAIN g.d}

\* C24 (as claimed): once the client has run every script returned so far,
\* each id that a getScript has covered is mapped to the value that was
\* registered for it when it was last covered.
C24_Original ==
    \A id \in HookIds :
        mgr.covered[id] # Absent => mgr.client[id] = mgr.covered[id]

\* C25: a getScript() without flow returns null and changes nothing when
\* nothing is queued; it leaves the queue empty, so that a second call
\* right after it returns null; and an id whose queued value is the one
\* the last call covering it serialized for it is not put in _FS_.m again.
C25_ClearAndDedupe ==
    [][(GetScriptStep /\ mgr'.arg = NoFlow)
       => /\ mgr'.hydrationQueue = <<>>
          /\ mgr.hydrationQueue = <<>>
             => /\ mgr'.null /\ mgr'.client = mgr.client
                /\ mgr'.cache = mgr.cache /\ mgr'.sentValues = mgr.sentValues
          /\ \A id \in QueuedIds(mgr.hydrationQueue) :
               (/\ mgr.serialized[id] = ValueOf(mgr.hydrationQueue, id)
                /\ mgr.covered[id] = ValueOf(mgr.hydrationQueue, id))
               => id \notin mgr'.m]_vars

C25_Witness ==
    /\ mgr.op = "getScript" /\ mgr.arg = NoFlow /\ mgr.null
    /\ mgr.coreHasBeenEmitted /\ mgr.hydrationQueue = <<>>
    /\ mgr.scanned = {1}
    /\ mgr.serialized[1] = mgr.covered[1] /\ mgr.client[1] = mgr.covered[1]

C27_Classifier ==
    \A c \in Consumers :
        LET h == out[c]
            p == h.res
            flags == <<p.isLoading, p.isError, p.isFetching>>
            prev == IF h.flow = skipToken THEN Nil ELSE previousStates[h.flow]
            kept == cur[c].mounted /\ cur[c].state = h.state
                      /\ cur[c].flow = h.flow /\ cur[c].isSsr = h.isSsr
        IN  /\ flags \in {<<FALSE, FALSE, FALSE>>, <<FALSE, TRUE, FALSE>>,
                          <<FALSE, FALSE, TRUE>>, <<TRUE, FALSE, TRUE>>}
            /\ (h.mounted /\ kept) => p = cur[c].res
            /\ (h.mounted /\ ~h.committed /\ ~kept) =>
                 IF h.flow = skipToken
                 THEN flags = <<FALSE, FALSE, FALSE>>
                        /\ p.currentData = Undefined /\ p.error = Undefined
                 ELSE IF h.state.status = "success"
                 THEN flags = <<FALSE, FALSE, FALSE>>
                        /\ p.currentData = h.state.data /\ p.error = Undefined
                 ELSE IF h.state.status = "error"
                 THEN flags = <<FALSE, TRUE, FALSE>> /\ p.error = h.state.error
                 ELSE IF prev.status = "success" \/ h.state.data # Undefined
                         \/ h.isSsr
                 THEN flags = <<FALSE, FALSE, TRUE>>
                        /\ p.currentData = Undefined /\ p.error = Undefined
                 ELSE flags = <<TRUE, FALSE, TRUE>>
                        /\ p.currentData = Undefined /\ p.error = Undefined

C27_Witness ==
    \E c \in Consumers :
        /\ out[c].mounted /\ ~out[c].committed /\ ~cur[c].mounted
        /\ out[c].flow # skipToken /\ Pending0(out[c].state)
        /\ previousStates[out[c].flow] = Nil
        /\ out[c].isSsr /\ out[c].res = updatingState

\* C28 (as claimed): when the state of a render is Updating because of a
\* prior Success (the snapshot is pending without own data and the phase is
\* not SSR/hydrating, so nothing else makes it Updating), every invocation
\* of the accessor of that render made while the source is still at that
\* snapshot returns data and does not throw, also after the render has
\* committed.
C28_Original ==
    \A c \in Consumers :
        (/\ call[c].kind # "none" /\ out[c].mounted
         /\ out[c].flow # skipToken /\ ~out[c].isSsr
         /\ Pending0(out[c].state) /\ out[c].res = updatingState
         /\ call[c].live = out[c].state)
        => call[c].kind = "return"

\* C29 (as claimed): a consumer whose committed render is Updating because
\* of a prior Success, and that renders the next snapshot the source emitted,
\* again pending without data, gets Updating again and an accessor that
\* returns data without suspending.
C29_Original ==
    \A c \in Consumers :
        (/\ out[c].mounted /\ cur[c].mounted /\ ~out[c].committed
         /\ out[c].flow # skipToken /\ cur[c].flow = out[c].flow
         /\ ~cur[c].isSsr /\ ~out[c].isSsr
         /\ Pending0(cur[c].state) /\ cur[c].res = updatingState
         /\ Pending0(out[c].state)
         /\ out[c].state.ref = cur[c].state.ref + 1)
        => /\ out[c].res = updatingState
           /\ (call[c].kind # "none" /\ call[c].live = out[c].state)
                => call[c].kind = "return"

\* C30 (as claimed): a consumer that mounts in the browser outside hydration
\* on a source whose snapshot is pending without data starts from no record,
\* whatever earlier mounts or other consumers recorded for that source: its
\* state is Loading and its accessor throws the source's promise.
C30_Original ==
    \A c \in Consumers :
        (/\ out[c].mounted /\ ~cur[c].mounted
         /\ env = "browser" /\ ~out[c].isSsr
         /\ out[c].flow # skipToken /\ Pending0(out[c].state))
        => /\ out[c].res = loadingState
           /\ (call[c].kind # "none" /\ call[c].live = out[c].state)
                => (call[c].kind = "promise" /\ call[c].value = out[c].flow)

\* C31 (as claimed): a render of a mounted consumer with the source and the
\* snapshot of its committed render returns the state variant (the flags)
\* of the committed render, also when the committed render was the
\* hydrating pass.
C31_Original ==
    \A c \in Consumers :
        (/\ out[c].mounted /\ cur[c].mounted /\ ~out[c].committed
         /\ out[c].flow = cur[c].flow /\ out[c].state = cur[c].state)
        => /\ out[c].res.isLoading = cur[c].res.isLoading
           /\ out[c].res.isError = cur[c].res.isError
           /\ out[c].res.isFetching = cur[c].res.isFetching

\* C32: a useAsyncFlow call made on the server, or while the SSR detector
\* reports true (the client's hydrating pass), never returns Loading; a
\* pending snapshot without data is reported as Updating (isLoading false,
\* isFetching true), with or without a prior Success.
C32_NoLoadingInSsr ==
    \A c \in Consumers :
        (out[c].mounted /\ (env = "server" \/ out[c].isSsr))
        => /\ ~out[c].res.isLoading
           /\ (out[c].flow # skipToken /\ Pending0(out[c].state))
                => out[c].res = updatingState

C32_Witness ==
    \E c \in Consumers :
        /\ out[c].mounted /\ env = "server" /\ out[c].isSsr
        /\ out[c].flow # skipToken /\ Pending0(out[c].state)
        /\ previousStates[out[c].flow] = Nil
        /\ out[c].res = updatingState

\* C33: when the snapshot the accessor reads is pending and carries its own
\* data, the accessor returns the data of the recorded Success if the record
\* of the source is a Success, and the pending snapshot's own data otherwise;
\* it does not throw in either case.
C33_TieBreak ==
    \A c \in Consumers :
        LET k == call[c]
            rs == ReadBy(k)
        IN  (k.kind # "none" /\ rs.status = "pending" /\ rs.data # Undefined)
            => /\ k.kind = "return"
               /\ k.value = IF k.prev.status = "success" THEN k.prev.data
                             ELSE rs.data

C33_Witness ==
    \E c \in Consumers :
        LET k == call[c]
            rs == ReadBy(k)
        IN  /\ k.kind = "return" /\ rs.status = "pending"
            /\ rs.data # Undefined /\ k.prev.status = "success"
            /\ k.prev.data # rs.data /\ k.value = k.prev.data

\* C34: a call of useAsyncFlows made by a component whose mount has been
\* committed never throws the combined promise of the pre-scan; when such a
\* call suspends, it is the useAsyncFlow call of one entry that throws, and
\* it throws the promise of that entry's flow, which is pending without
\* data.
C34_NoPreScanAfterMount ==
    (attempt.made /\ attempt.wasMounted)
    => /\ attempt.thrown # "all" /\ attempt.collected = {}
       /\ attempt.thrown = "promise"
            => /\ attempt.by \in DOMAIN attempt.list
               /\ attempt.list[attempt.by] = attempt.value
               /\ attempt.value # skipToken
               /\ \A f \in Flows :
                    (attempt.promises[f] # "none") = (f = attempt.value)

C34_Witness ==
    /\ attempt.made /\ attempt.wasMounted /\ coord.mounted
    /\ attempt.thrown = "promise" /\ attempt.by \in DOMAIN coord.slots
    /\ coord.slots[attempt.by].flow = skipToken
    /\ Pending0(snapshot[attempt.value])

\* C38: a getScript call returns a script that starts with the core
\* initialization exactly when the script is not null and no earlier call of
\* the manager returned a script; so every script carrying _FS_.m or _FS_.d
\* either starts with the core or follows a script that did, and a null
\* return leaves the core for the next script.
C38_CoreOnce ==
    [][GetScriptStep =>
         /\ mgr'.core = (~mgr'.null /\ ~mgr.returned)
         /\ (mgr'.m # {} \/ mgr'.d # <<>>) => (mgr'.core \/ mgr.returned)
         /\ mgr'.null => (mgr'.m = {} /\ mgr'.d = <<>>)]_vars

C38_Witness ==
    /\ mgr.op = "getScript" /\ ~mgr.null /\ ~mgr.core /\ mgr.returned
    /\ mgr.m # {}

\* C39: a microtask of useFlowEffect invokes the handler only when the
\* snapshot it reads differs by reference from the snapshot passed to the
\* previous handler invocation, and then passes the snapshot it read; when
\* the flow holds the previously handled reference again (the same object
\* re-emitted, or A, B, A within one turn), the microtask invokes neither the
\* handler nor a teardown.
C39_DistinctOnly ==
    [][Len(eff'.queue) < Len(eff.queue) =>
         /\ eff'.ncalls > eff.ncalls =>
               /\ snapshot[eff.flow] # eff.lastValue
               /\ eff'.lastValue = snapshot[eff.flow]
         /\ (eff.mounted /\ eff.flow # skipToken
               /\ snapshot[eff.flow] = eff.lastValue) =>
               /\ eff'.ncalls = eff.ncalls
               /\ eff'.teardowns = eff.teardowns /\ eff'.torn = eff.torn]_vars

C39_Witness ==
    /\ eff.mounted /\ eff.flow # skipToken /\ eff.returnsTeardown
    /\ eff.turnKind = "emit" /\ ~eff.turnOpen /\ eff.turnN = 2
    /\ eff.turnMoved /\ eff.turnGen = eff.gen
    /\ snapshot[eff.flow] = eff.lastValue
    /\ eff.ncalls = eff.turnBase /\ eff.teardowns = eff.turnTd

\* C35 (as claimed): in a server pass with a registry in scope, an id whose
\* server snapshot has been read, once or several times, has caused exactly
\* one register call.
C35_Original ==
    \A id \in HookIds : mgr.nread[id] >= 1 => mgr.nreg[id] = 1

\* C35 (amended): in a server pass with a registry in scope, every read of
\* the server snapshot of an id makes one register call with the value read,
\* a read repeated by a retried render included; the queue of the registry
\* holds at most one entry per id, and after a read it carries the value of
\* that read for the id.
C35_WritePerRead ==
    /\ \A id \in HookIds :
          /\ mgr.nreg[id] = mgr.nread[id]
          /\ Cardinality({i \in DOMAIN mgr.hydrationQueue :
                            mgr.hydrationQueue[i].id = id}) <= 1
    /\ mgr.op = "register" =>
          /\ mgr.rside = "server" /\ mgr.rprov
          /\ mgr.rid \in QueuedIds(mgr.hydrationQueue)
          /\ ValueOf(mgr.hydrationQueue, mgr.rid) = mgr.ret
          /\ mgr.rid \in mgr.flowHooks[FlowOf(mgr.rid)]

C35_Witness ==
    /\ mgr.op = "register" /\ mgr.nread[mgr.rid] = 2 /\ mgr.nreg[mgr.rid] = 2
    /\ mgr.client[mgr.rid] # Absent /\ mgr.client[mgr.rid] # mgr.ret
    /\ ValueOf(mgr.hydrationQueue, mgr.rid) = mgr.ret

\* C36 (as claimed): between two scripts that write an id, at most one
\* hydrate(id) call of the client returns the record of the id.
C36_Original ==
    \A id \in HookIds : mgr.nrecall[id] <= 1

ReadStep == mgr' # mgr /\ mgr'.op \in {"read", "register"}

\* C37: a getServerSnapshot call of useFlow with a registry in scope on the
\* client returns the recorded value exactly when the global map has the
\* id, whatever the value is (a falsy one included), and the flow's live
\* snapshot otherwise; on the server, where no record exists, it returns the
\* live snapshot and calls register; with no registry in scope it returns
\* the live snapshot and touches no manager.
C37_PresenceDecides ==
    [][ReadStep =>
         LET id == mgr'.rid
             live == snapshot[FlowOf(id)]
             has == mgr.client[id] # Absent
         IN  /\ (mgr'.rside = "browser" /\ mgr'.rprov) =>
                   /\ mgr'.recalled = has
                   /\ mgr'.ret = IF has THEN mgr.client[id] ELSE live
                   /\ mgr'.op = "read"
                   /\ mgr'.hydrationQueue = mgr.hydrationQueue
             /\ (mgr'.rside = "server" /\ mgr'.rprov) =>
                   /\ ~mgr'.recalled /\ mgr'.ret = live
                   /\ mgr'.op = "register"
             /\ ~mgr'.rprov =>
                   /\ ~mgr'.recalled /\ mgr'.ret = live /\ mgr'.op = "read"
                   /\ mgr'.hydrationQueue = mgr.hydrationQueue]_vars

C37_Witness ==
    /\ mgr.op = "read" /\ mgr.rside = "browser" /\ mgr.rprov
    /\ mgr.recalled /\ mgr.ret = 0 /\ mgr.client[mgr.rid] = 0
    /\ snapshot[FlowOf(mgr.rid)] # 0

\* C40: for one source, every value passed to the useFlowEffect handler and
\* every snapshot returned by a useFlow render is the value the source holds
\* at that moment, so no delivery carries a value emitted before the value of
\* an earlier delivery (the objects of the source are numbered in emission
\* order); and when the microtask queue is empty the last value passed to
\* the handler of a mounted effect is the source's current snapshot.
C40_PerSourceOrder ==
    [][/\ eff'.ncalls > eff.ncalls =>
            /\ eff'.lastValue = snapshot'[OrdFlow]
            /\ eff.ncalls > 0 => eff'.lastValue.ref >= eff.lastValue.ref
       /\ (hosts'[OrdHost].wip /\ hosts'[OrdHost] # hosts[OrdHost]
             /\ emits' = emits) =>
            /\ hosts'[OrdHost].wvalue = snapshot'[OrdFlow]
            /\ hosts[OrdHost].mounted =>
                  hosts'[OrdHost].wvalue.ref >= hosts[OrdHost].value.ref
       /\ (eff'.mounted /\ eff'.queue = <<>>) =>
            eff'.lastValue = snapshot'[OrdFlow]]_vars

C40_Witness ==
    /\ emits = 2 /\ snapshot[OrdFlow].ref = EmittedRef(2)
    /\ eff.mounted /\ eff.queue = <<>> /\ eff.ncalls = 3
    /\ eff.lastValue = snapshot[OrdFlow]
    /\ hosts[OrdHost].mounted /\ ~hosts[OrdHost].wip
    /\ hosts[OrdHost].value = snapshot[OrdFlow]

====
